---- MODULE Spec2Model ----
(***************************************************************************)
(* Model of the Jenkins job locator (JenkinsClient._extract_job_path in    *)
(* jenkins_client.py), of the error-window log extractor                   *)
(* (extract_error_block in log_parser.py), and of the client calls         *)
(* get_console_log and get_job_info with the HTTP requests they send.      *)
(*                                                                         *)
(* A Python str is a sequence of one-character strings, so that slicing,   *)
(* searching, stripping and replacing are computed character by character  *)
(* as the code computes them.                                              *)
(***************************************************************************)
EXTENDS Integers, Sequences, FiniteSets, TLC

VARIABLES
    job_url,        \* argument of _extract_job_path
    loc_pc,         \* "call" before _extract_job_path ran, "done" after
    loc_result,     \* what the call produced: a return value or a raised error
    log_text,       \* argument of extract_error_block
    max_lines,      \* argument of extract_error_block
    keywords,       \* argument of extract_error_block: None or <<list>>
    ext_pc,         \* "call" before extract_error_block ran, "done" after
    extracted,      \* the local list extracted when the scan has ended
    added_indices,  \* the local set added_indices when the scan has ended
    order,          \* history: the line index behind each entry of extracted
    excerpt,        \* the string extract_error_block returned
    config,         \* the JenkinsConfig the client was built with
    base_url,       \* self.base_url
    cli_args,       \* the client method called and its arguments
    cli_pc,         \* position of the client call
    cli_job_path,   \* local job_path of the client call
    cli_build_number, \* local build_number of the client call: None or <<n>>
    requests,       \* history: the HTTP requests sent, in order
    responses,      \* history: the outcome of each request, in order
    cli_result,     \* what the client call returned or raised
    frames,         \* the local state of each of the interleaved core calls
    tool_call,      \* the tool function called and its arguments
    tool_pc,        \* position of the tool call
    tool_result     \* what the tool function returned or raised

loc_vars == <<job_url, loc_pc, loc_result>>

ext_vars == <<log_text, max_lines, keywords, ext_pc, extracted, added_indices,
              order, excerpt>>

cli_vars == <<config, base_url, cli_args, cli_pc, cli_job_path,
              cli_build_number, requests, responses, cli_result>>

tool_vars == <<tool_call, tool_pc, tool_result>>

vars == <<job_url, loc_pc, loc_result, log_text, max_lines, keywords, ext_pc,
          extracted, added_indices, order, excerpt, config, base_url, cli_args,
          cli_pc, cli_job_path, cli_build_number, requests, responses,
          cli_result, frames, tool_call, tool_pc, tool_result>>

----------------------------------------------------------------------------
(* Bounds of the enumerated inputs *)

\* longest list of path segments put behind the head of a generated job_url
MaxSegs == 5

\* most lines of a generated log with numbered lines
MaxLogLen == 50

\* most lines of a generated log of freely chosen short lines
MaxShortLen == 4

\* most calls of the core functions running interleaved
MaxCalls == 2

----------------------------------------------------------------------------
(* Python str primitives *)

Digits == <<"0", "1", "2", "3", "4", "5", "6", "7", "8", "9">>

isdigit(c) == \E d \in 1..10 : Digits[d] = c

DigitVal(c) == (CHOOSE d \in 1..10 : Digits[d] = c) - 1

Lowercase == <<"a", "b", "c", "d", "e", "f", "g", "h", "i", "j", "k", "l", "m",
               "n", "o", "p", "q", "r", "s", "t", "u", "v", "w", "x", "y", "z">>

Uppercase == <<"A", "B", "C", "D", "E", "F", "G", "H", "I", "J", "K", "L", "M",
               "N", "O", "P", "Q", "R", "S", "T", "U", "V", "W", "X", "Y", "Z">>

isalpha(c) == \E k \in 1..26 : Lowercase[k] = c \/ Uppercase[k] = c

\* the lower-case letter of each upper-case letter
LowerOf ==
    [c \in {Uppercase[k] : k \in 1..26} |->
        Lowercase[CHOOSE k \in 1..26 : Uppercase[k] = c]]

\* str.lower() of one character
lower_char(c) == IF c \in DOMAIN LowerOf THEN LowerOf[c] ELSE c

\* str.lower()
lower(s) == [k \in 1..Len(s) |-> lower_char(s[k])]

\* s[a:] with a 1-based first position
From(s, a) == SubSeq(s, a, Len(s))

\* s.startswith(p)
startswith(s, p) == Len(s) >= Len(p) /\ SubSeq(s, 1, Len(p)) = p

\* s.find(sub, from): the first 1-based position >= from at which sub occurs,
\* 0 when there is none (Python's -1)
find_from(s, sub, from) ==
    LET at(p) == SubSeq(s, p, p + Len(sub) - 1) = sub
        hits  == {p \in from..(Len(s) - Len(sub) + 1) : at(p)}
    IN  IF hits = {} THEN 0 ELSE CHOOSE p \in hits : \A q \in hits : p <= q

\* s.find(sub)
find(s, sub) == find_from(s, sub, 1)

\* s.rfind(sub): the last position at which sub occurs, 0 when there is none
rfind(s, sub) ==
    LET at(p) == SubSeq(s, p, p + Len(sub) - 1) = sub
        hits  == {p \in 1..(Len(s) - Len(sub) + 1) : at(p)}
    IN  IF hits = {} THEN 0 ELSE CHOOSE p \in hits : \A q \in hits : p >= q

\* sub in s
contains(s, sub) ==
    \E p \in 1..(Len(s) - Len(sub) + 1) : SubSeq(s, p, p + Len(sub) - 1) = sub

\* s.rstrip(c) for a single character c
rstrip(s, c) ==
    LET keep == {k \in 1..Len(s) : s[k] # c}
    IN  IF keep = {} THEN <<>>
        ELSE SubSeq(s, 1, CHOOSE k \in keep : \A q \in keep : k >= q)

\* s.lstrip(c) for a single character c
lstrip(s, c) ==
    LET keep == {k \in 1..Len(s) : s[k] # c}
    IN  IF keep = {} THEN <<>>
        ELSE From(s, CHOOSE k \in keep : \A q \in keep : k <= q)

\* s.strip(c) for a single character c
strip(s, c) == lstrip(rstrip(s, c), c)

\* the value of a one-element set
the(S) == CHOOSE x \in S : TRUE

\* s.replace(old, new) at position p of its scan from left to right: the
\* positions before st.next belong to an occurrence that was replaced
replace_at(st, s, old, new, p) ==
    IF p < st.next THEN st
    ELSE IF p + Len(old) - 1 <= Len(s) /\ SubSeq(s, p, p + Len(old) - 1) = old
         THEN [out |-> st.out \o new, next |-> p + Len(old)]
         ELSE [out |-> Append(st.out, s[p]), next |-> p + 1]

RECURSIVE replace_range(_, _, _, _, _, _)
\* the scan of s.replace(old, new) over the positions lo..hi, run half by half
replace_range(st, s, old, new, lo, hi) ==
    IF hi < lo THEN st
    ELSE IF hi = lo THEN replace_at(st, s, old, new, lo)
    ELSE the({replace_range(half, s, old, new, ((lo + hi) \div 2) + 1, hi) :
                half \in {replace_range(st, s, old, new, lo, (lo + hi) \div 2)}})

\* s.replace(old, new): non-overlapping occurrences, left to right (old # "")
replace(s, old, new) ==
    replace_range([out |-> <<>>, next |-> 1], s, old, new, 1, Len(s)).out

RECURSIVE join_range(_, _, _, _)
\* c.join(pieces[lo..hi]), put together half by half
join_range(pieces, c, lo, hi) ==
    IF hi < lo THEN <<>>
    ELSE IF hi = lo THEN pieces[lo]
    ELSE join_range(pieces, c, lo, (lo + hi) \div 2) \o <<c>>
         \o join_range(pieces, c, ((lo + hi) \div 2) + 1, hi)

\* c.join(pieces) for a single character c
join(pieces, c) == join_range(pieces, c, 1, Len(pieces))

RECURSIVE int(_)
\* int(s) of a string of decimal digits
int(s) ==
    IF s = <<>> THEN 0
    ELSE 10 * int(SubSeq(s, 1, Len(s) - 1)) + DigitVal(s[Len(s)])

----------------------------------------------------------------------------
(* urllib.parse.urlparse, as far as _extract_job_path uses it *)

\* characters a URL scheme may consist of
scheme_chars(c) == isalpha(c) \/ isdigit(c) \/ c \in {"+", "-", "."}

\* scheme names for which urlparse splits ;parameters off the path
uses_params == {<<>>, <<"f", "t", "p">>, <<"h", "t", "t", "p">>,
                <<"h", "t", "t", "p", "s">>}

\* urlsplit's netloc: from behind the leading // up to the first of / ? #
splitnetloc(url) ==
    LET ends  == {p \in 3..Len(url) : url[p] \in {"/", "?", "#"}}
        delim == IF ends = {} THEN Len(url) + 1
                 ELSE CHOOSE p \in ends : \A q \in ends : p <= q
    IN  [netloc |-> SubSeq(url, 3, delim - 1), rest |-> From(url, delim)]

\* url.split(c, 1)[0] when c occurs, url otherwise
before_first(url, c) ==
    IF find(url, <<c>>) = 0 THEN url ELSE SubSeq(url, 1, find(url, <<c>>) - 1)

\* _splitparams: the path without the ;parameters of its last segment
splitparams(url) ==
    LET i == IF contains(url, <<"/">>)
             THEN find_from(url, <<";">>, rfind(url, <<"/">>))
             ELSE find(url, <<";">>)
    IN  IF i = 0 THEN url ELSE SubSeq(url, 1, i - 1)

\* urlparse(url): scheme, netloc and path
urlparse(url) ==
    LET i       == find(url, <<":">>)
        isSch   == /\ i > 1
                   /\ isalpha(url[1])
                   /\ \A k \in 1..(i - 1) : scheme_chars(url[k])
        scheme  == IF isSch THEN lower(SubSeq(url, 1, i - 1)) ELSE <<>>
        u1      == IF isSch THEN From(url, i + 1) ELSE url
        hasNet  == startswith(u1, <<"/", "/">>)
        netloc  == IF hasNet THEN splitnetloc(u1).netloc ELSE <<>>
        u2      == IF hasNet THEN splitnetloc(u1).rest ELSE u1
        u3      == before_first(u2, "#")
        u4      == before_first(u3, "?")
        u5      == IF scheme \in uses_params /\ contains(u4, <<";">>)
                   THEN splitparams(u4) ELSE u4
    IN  [scheme |-> scheme, netloc |-> netloc, path |-> u5]

----------------------------------------------------------------------------
(* JenkinsClient._extract_job_path *)

\* the absent Optional[int]; a present build number n is <<n>>
None == <<>>

JOB == <<"/", "j", "o", "b", "/">>

HTTP == <<"h", "t", "t", "p">>

ErrNoJobPath == "URL does not contain job path"

ErrCannotExtract == "Cannot extract job path from URL"

\* build_match with the pattern r'/(\d)$': one digit only
build_match_one_digit(path) ==
    IF Len(path) >= 2 /\ path[Len(path) - 1] = "/" /\ isdigit(path[Len(path)])
    THEN Len(path) - 1 ELSE 0

\* re.search(r'/(\d+)$', path).start(), 1-based; 0 when there is no match
build_match(path) ==
    LET hits == {p \in 1..(Len(path) - 1) :
                    /\ path[p] = "/"
                    /\ \A q \in (p + 1)..Len(path) : isdigit(path[q])}
    IN  IF hits = {} THEN 0 ELSE CHOOSE p \in hits : \A q \in hits : p <= q

\* the end of the maximal run [^/]+ that starts at position a
name_end(s, a) ==
    LET stops == {p \in a..Len(s) : s[p] = "/"}
    IN  IF stops = {} THEN Len(s)
        ELSE (CHOOSE p \in stops : \A q \in stops : p <= q) - 1

\* /job/[^/]+ matches at position p
job_name_at(s, p) ==
    /\ p + 5 <= Len(s)
    /\ SubSeq(s, p, p + 4) = JOB
    /\ s[p + 5] # "/"

RECURSIVE job_run_end(_, _)
\* the end of the greedy (?:/job/[^/]+)* that starts behind position e
job_run_end(s, e) ==
    IF job_name_at(s, e + 1) THEN job_run_end(s, name_end(s, e + 6)) ELSE e

\* re.search(r'/job/([^/]+(?:/job/[^/]+)*)', s): group(1) in a one-element
\* sequence, or the empty sequence when there is no match
job_match(s) ==
    LET hits == {p \in 1..Len(s) : job_name_at(s, p)}
        p0   == CHOOSE p \in hits : \A q \in hits : p <= q
    IN  IF hits = {} THEN <<>>
        ELSE <<SubSeq(s, p0 + 5, job_run_end(s, name_end(s, p0 + 5)))>>

\* prefix_before with the prefix thrown away
prefix_before_dropped(path, job_start) == <<>>

\* prefix = path[:job_start] if job_start > 0 else '' (job_start 1-based here)
prefix_before(path, job_start) ==
    IF job_start > 1 THEN SubSeq(path, 1, job_start - 1) ELSE <<>>

\* prefix + '/job/' + job_path.replace('/', '/job/')
canonical_path(prefix, job_path) ==
    prefix \o JOB \o replace(job_path, <<"/">>, JOB)

\* the URL branch of _extract_job_path
extract_from_url(url) ==
    LET path0        == rstrip(urlparse(url).path, "/")
        bm           == build_match(path0)
        build_number == IF bm # 0 THEN <<int(From(path0, bm + 1))>> ELSE None
        path         == IF bm # 0 THEN SubSeq(path0, 1, bm - 1) ELSE path0
        job_start    == find(path, JOB)
        prefix       == prefix_before(path, job_start)
        job_portion  == From(path, job_start)
        jm           == job_match(job_portion)
        job_path     == replace(jm[1], JOB, <<"/">>)
        full_path    == canonical_path(prefix, job_path)
    IN  IF contains(path, JOB)
        THEN IF jm # <<>>
             THEN [ok |-> TRUE, job_path |-> lstrip(full_path, "/"),
                   build_number |-> build_number, error |-> ""]
             ELSE [ok |-> FALSE, job_path |-> <<>>, build_number |-> None,
                   error |-> ErrCannotExtract]
        ELSE [ok |-> FALSE, job_path |-> <<>>, build_number |-> None,
              error |-> ErrNoJobPath]

\* extract_job_path taking only https URLs for URLs
extract_job_path_https_only(url) ==
    IF startswith(url, HTTP \o <<"s">>)
    THEN extract_from_url(url)
    ELSE [ok |-> TRUE, job_path |-> strip(url, "/"),
          build_number |-> None, error |-> ""]

\* _extract_job_path(job_url): the returned pair, or the ValueError raised
extract_job_path(url) ==
    IF startswith(url, HTTP)
    THEN extract_from_url(url)
    ELSE [ok |-> TRUE, job_path |-> strip(url, "/"),
          build_number |-> None, error |-> ""]

----------------------------------------------------------------------------
(* Inputs of the locator: a head, then /segment for each of up to MaxSegs   *)
(* segments, then a tail.                                                   *)

Heads == {
    <<>>,
    <<"h", "t", "t", "p", ":", "/", "/", "h">>,
    <<"h", "t", "t", "p", "s", ":", "/", "/", "h">>,
    <<"h", "t", "t", "p">>,
    <<"f", "t", "p", ":", "/", "/", "h">> }

SegTexts == { <<"j", "o", "b">>, <<"a">>, <<"4", "2">>, <<"0">>, <<>> }

Tails == { <<>>, <<"?", "q", "/", "7">> }

RECURSIVE SegLists(_)
\* all lists of at most n segment texts
SegLists(n) ==
    IF n = 0 THEN {<<>>}
    ELSE LET shorter == SegLists(n - 1)
         IN  shorter \cup {Append(l, t) : l \in {x \in shorter : Len(x) = n - 1},
                                          t \in SegTexts}

RECURSIVE join_path(_)
\* "/" + "/".join(segments), empty for no segments
join_path(segs) ==
    IF segs = <<>> THEN <<>>
    ELSE join_path(SubSeq(segs, 1, Len(segs) - 1)) \o <<"/">> \o segs[Len(segs)]

\* the worked examples of the locator's contract
Examples == {
    <<"h","t","t","p","s",":","/","/","h","/","j","o","b","/","a","/","j","o","b","/","b","/","4","2","/">>,
    <<"h","t","t","p","s",":","/","/","h","/","t","e","a","m","/","j","o","b","/","a","/">>,
    <<"h","t","t","p","s",":","/","/","h","/","n","o","-","j","o","b","-","m","a","r","k","e","r","/">>,
    <<"a","/","b">> }

JobUrls ==
    Examples \cup
    {h \o join_path(l) \o t : h \in Heads, l \in SegLists(MaxSegs), t \in Tails}

----------------------------------------------------------------------------
(* The locator as a state machine: one call of _extract_job_path *)

NoResult == [ok |-> FALSE, job_path |-> <<>>, build_number |-> None, error |-> ""]

\* no call of extract_error_block is under way
ExtIdle ==
    /\ log_text = <<>>
    /\ max_lines = 0
    /\ keywords = None
    /\ ext_pc = "idle"
    /\ extracted = <<>>
    /\ added_indices = {}
    /\ order = <<>>
    /\ excerpt = <<>>

\* no client call is under way
CliIdle ==
    /\ config = [base_url |-> <<>>]
    /\ base_url = <<>>
    /\ cli_args = [fn |-> "", job_url |-> <<>>, build_number |-> None,
                   parse_errors |-> FALSE]
    /\ cli_pc = "idle"
    /\ cli_job_path = <<>>
    /\ cli_build_number = None
    /\ requests = <<>>
    /\ responses = <<>>
    /\ cli_result = [ok |-> FALSE, value |-> <<>>, wrapper |-> "", cause |-> ""]

\* no interleaved core calls are under way
CallsIdle == frames = <<>>

NoToolResult == [raised |-> FALSE, text |-> <<>>]

\* no tool function is under way
ToolsIdle ==
    /\ tool_call = [fn |-> "", job_url |-> <<>>, build_number |-> None,
                    parse_errors |-> FALSE]
    /\ tool_pc = "idle"
    /\ tool_result = NoToolResult

LocInit ==
    /\ job_url \in JobUrls
    /\ loc_pc = "call"
    /\ loc_result = NoResult
    /\ ExtIdle
    /\ CliIdle
    /\ CallsIdle
    /\ ToolsIdle

ExtractJobPath ==
    /\ loc_pc = "call"
    /\ loc_result' = extract_job_path(job_url)
    /\ loc_pc' = "done"
    /\ UNCHANGED job_url
    /\ UNCHANGED ext_vars
    /\ UNCHANGED cli_vars
    /\ UNCHANGED frames
    /\ UNCHANGED tool_vars

LocNext == ExtractJobPath

SpecLocator == LocInit /\ [][LocNext]_vars

----------------------------------------------------------------------------
(* extract_error_block *)

\* max_lines=1000
DefaultMaxLines == 1000

\* the keywords used when the argument is None
DefaultKeywords == <<
    <<"E", "R", "R", "O", "R">>,
    <<"E", "x", "c", "e", "p", "t", "i", "o", "n">>,
    <<"T", "r", "a", "c", "e", "b", "a", "c", "k">>,
    <<"F", "A", "I", "L", "E", "D">>,
    <<"B", "u", "i", "l", "d", " ", "f", "a", "i", "l", "e", "d">>,
    <<"S", "e", "g", "m", "e", "n", "t", "a", "t", "i", "o", "n", " ",
      "f", "a", "u", "l", "t">> >>

\* lines of context in front of a matching line: i - 10
ContextBefore == 10

\* end of the context behind a matching line: i + 20, exclusive
ContextAfter == 20

\* the line boundaries str.splitlines() knows, among the modelled characters
LineBreaks == {"\n", "\r"}

\* str.splitlines() at one character of its scan: st.lines are the lines that
\* have ended, st.line is the line under way, st.cr tells that the character
\* before was "\r", which makes one boundary with a "\n" behind it
split_char(st, ch) ==
    IF ch = "\n" /\ st.cr THEN [st EXCEPT !.cr = FALSE]
    ELSE IF ch \in LineBreaks
         THEN [lines |-> Append(st.lines, st.line), line |-> <<>>,
               cr |-> (ch = "\r")]
         ELSE [lines |-> st.lines, line |-> Append(st.line, ch), cr |-> FALSE]

RECURSIVE split_range(_, _, _, _)
\* the scan of str.splitlines() over the positions lo..hi, run half by half
split_range(st, text, lo, hi) ==
    IF hi < lo THEN st
    ELSE IF hi = lo THEN split_char(st, text[lo])
    ELSE the({split_range(half, text, ((lo + hi) \div 2) + 1, hi) :
                half \in {split_range(st, text, lo, (lo + hi) \div 2)}})

\* text.splitlines(): a boundary that ends the text opens no further line
splitlines(text) ==
    LET st == split_range([lines |-> <<>>, line |-> <<>>, cr |-> FALSE],
                          text, 1, Len(text))
    IN  IF st.line = <<>> THEN st.lines ELSE Append(st.lines, st.line)

\* any_keyword with the parenthesis misplaced: any(k.lower() for k in keywords)
any_keyword_truthy(line, kws) ==
    \E k \in 1..Len(kws) : lower(kws[k]) # <<>>

\* any(k.lower() in line.lower() for k in keywords)
any_keyword(line, kws) ==
    \E low \in {lower(line)} :
        \E k \in 1..Len(kws) : \E key \in {lower(kws[k])} : contains(low, key)

\* window_start one line late: max(0, i - 9)
window_start_late(i) ==
    IF i - ContextBefore + 1 > 0 THEN i - ContextBefore + 1 ELSE 0

\* start = max(0, i - 10)
window_start(i) == IF i - ContextBefore > 0 THEN i - ContextBefore ELSE 0

\* window_end reaching one line further: min(len(lines), i + 21)
window_end_inclusive(i, n) ==
    IF n < i + ContextAfter + 1 THEN n ELSE i + ContextAfter + 1

\* end = min(len(lines), i + 20)
window_end(i, n) == IF n < i + ContextAfter THEN n ELSE i + ContextAfter

\* add_line without the test of added_indices: every window appends its lines
add_line_always(st, lines, j) ==
    [extracted     |-> Append(st.extracted, lines[j + 1]),
     added_indices |-> st.added_indices \cup {j},
     order         |-> Append(st.order, j)]

\* add_line putting the line in front: extracted.insert(0, lines[j])
add_line_front(st, lines, j) ==
    IF j \in st.added_indices THEN st
    ELSE [extracted     |-> <<lines[j + 1]>> \o st.extracted,
          added_indices |-> st.added_indices \cup {j},
          order         |-> <<j>> \o st.order]

\* if j not in added_indices: extracted.append(lines[j]); added_indices.add(j)
add_line(st, lines, j) ==
    IF j \in st.added_indices THEN st
    ELSE [extracted     |-> Append(st.extracted, lines[j + 1]),
          added_indices |-> st.added_indices \cup {j},
          order         |-> Append(st.order, j)]

RECURSIVE scan_window(_, _, _, _)
\* for j in range(start, end), run half by half
scan_window(st, lines, start, end) ==
    IF end <= start THEN st
    ELSE IF end = start + 1 THEN add_line(st, lines, start)
    ELSE the({scan_window(half, lines, (start + end) \div 2, end) :
                half \in {scan_window(st, lines, start, (start + end) \div 2)}})

\* the body of the loop over the lines, for line i
scan_line(st, lines, kws, i) ==
    IF any_keyword(lines[i + 1], kws)
    THEN scan_window(st, lines, window_start(i), window_end(i, Len(lines)))
    ELSE st

RECURSIVE scan_lines(_, _, _, _, _)
\* for i, line in enumerate(lines), for i in range(lo, hi), run half by half
scan_lines(st, lines, kws, lo, hi) ==
    IF hi <= lo THEN st
    ELSE IF hi = lo + 1 THEN scan_line(st, lines, kws, lo)
    ELSE the({scan_lines(half, lines, kws, (lo + hi) \div 2, hi) :
                half \in {scan_lines(st, lines, kws, lo, (lo + hi) \div 2)}})

\* last_entries keeping the head of the list: extracted[:max_lines]
last_entries_head(xs, m) ==
    IF m >= 0 THEN SubSeq(xs, 1, IF m < Len(xs) THEN m ELSE Len(xs))
    ELSE SubSeq(xs, 1, IF Len(xs) + m > 0 THEN Len(xs) + m ELSE 0)

\* last_entries cutting one entry too many: extracted[-(max_lines - 1):]
last_entries_one_short(xs, m) ==
    IF m > 1 THEN From(xs, IF Len(xs) - m + 1 > 0 THEN Len(xs) - m + 2 ELSE 1)
    ELSE From(xs, 2 - m)

\* xs[-m:]: the slice from position len(xs) - m when m > 0, from position 0
\* when m = 0 (-0 is 0), from position -m when m < 0
last_entries(xs, m) ==
    IF m > 0 THEN From(xs, IF Len(xs) - m > 0 THEN Len(xs) - m + 1 ELSE 1)
    ELSE From(xs, 1 - m)

\* the local state of extract_error_block when its scan has ended, and the
\* string it returns
extract_error_block(text, m, kwarg) ==
    LET kws   == IF kwarg = None THEN DefaultKeywords ELSE kwarg[1]
        lines == splitlines(text)
        st    == scan_lines([extracted |-> <<>>, added_indices |-> {},
                             order |-> <<>>], lines, kws, 0, Len(lines))
    IN  [extracted     |-> st.extracted,
         added_indices |-> st.added_indices,
         order         |-> st.order,
         excerpt       |-> join(last_entries(st.extracted, m), "\n")]

----------------------------------------------------------------------------
(* JenkinsClient.__init__, get_console_log, _get_latest_build_number and    *)
(* get_job_info, with the HTTP exchange of each request                     *)

CONSOLETEXT == <<"/", "c", "o", "n", "s", "o", "l", "e", "T", "e", "x", "t">>

APIJSON == <<"/", "a", "p", "i", "/", "j", "s", "o", "n">>

RECURSIVE str_nat(_)
\* str(n) of a natural number: its decimal digits
str_nat(n) ==
    IF n < 10 THEN <<Digits[n + 1]>>
    ELSE str_nat(n \div 10) \o <<Digits[(n % 10) + 1]>>

\* str(n) of an int, as the f-strings format a build number
str_int(n) == IF n < 0 THEN <<"-">> \o str_nat(0 - n) ELSE str_nat(n)

\* init_base_url keeping the configured text: self.base_url = config.base_url
init_base_url_raw(configured) == configured

\* self.base_url = config.base_url.rstrip('/')
init_base_url(configured) == rstrip(configured, "/")

\* resolve_build_number letting the URL's build number win over the argument
resolve_build_number_url_first(build_number, url_build_number) ==
    IF url_build_number = None THEN build_number ELSE url_build_number

\* if build_number is None: build_number = url_build_number
resolve_build_number(build_number, url_build_number) ==
    IF build_number = None THEN url_build_number ELSE build_number

\* console_url built from the collapsed job path, the markers left out
console_url_collapsed(base, job_path, build_number) ==
    base \o <<"/">> \o replace(job_path, JOB, <<"/">>) \o <<"/">>
    \o str_int(build_number) \o CONSOLETEXT

\* f"{self.base_url}/{job_path}/{build_number}/consoleText"
console_url(base, job_path, build_number) ==
    base \o <<"/">> \o job_path \o <<"/">> \o str_int(build_number)
    \o CONSOLETEXT

\* latest_build_url with the base URL left out: f"/{job_path}/api/json"
latest_build_url_relative(base, job_path) == <<"/">> \o job_path \o APIJSON

\* f"{self.base_url}/{job_path}/api/json" of _get_latest_build_number
latest_build_url(base, job_path) == base \o <<"/">> \o job_path \o APIJSON

\* job_info_url asking for the job's metadata whatever the URL carried
job_info_url_job_only(base, job_path, build_number) ==
    base \o <<"/">> \o job_path \o APIJSON

\* job_api_url of get_job_info: with the build number when there is one
job_info_url(base, job_path, build_number) ==
    IF build_number # None
    THEN base \o <<"/">> \o job_path \o <<"/">> \o str_int(build_number[1])
         \o APIJSON
    ELSE base \o <<"/">> \o job_path \o APIJSON

\* client.get(url, headers=self.headers, timeout=...): the request sent
Request(url, sender) == [url |-> url, headers |-> "self.headers", sent_by |-> sender]

\* the exchange ended without a response: client.get raises
NetworkError == [kind |-> "network_error", status |-> 0, text |-> <<>>, json |-> None]

\* a response with a status code; json is None when the body is not JSON
Response(status, text, json) ==
    [kind |-> "response", status |-> status, text |-> text, json |-> json]

\* raise_for_status letting every response pass
raise_for_status_ignored(resp) == ""

\* client.get and response.raise_for_status(): the exception raised, "" for none
raise_for_status(resp) ==
    IF resp.kind = "network_error" THEN "ConnectError"
    ELSE IF resp.status >= 400 THEN "HTTPStatusError"
    ELSE ""

ErrNoBuilds == "No builds found for this job"

\* latest_build_number taking a missing or null lastBuild for build number 1
latest_build_number_lenient(resp) ==
    IF raise_for_status(resp) # ""
    THEN [ok |-> FALSE, number |-> 0, error |-> raise_for_status(resp)]
    ELSE IF resp.json = None
    THEN [ok |-> FALSE, number |-> 0, error |-> "JSONDecodeError"]
    ELSE IF "lastBuild" \notin DOMAIN resp.json[1] \/ resp.json[1].lastBuild = None
    THEN [ok |-> TRUE, number |-> 1, error |-> ""]
    ELSE IF "number" \notin DOMAIN resp.json[1].lastBuild[1]
    THEN [ok |-> FALSE, number |-> 0, error |-> "KeyError"]
    ELSE [ok |-> TRUE, number |-> resp.json[1].lastBuild[1].number, error |-> ""]

\* _get_latest_build_number once the response is there: raise_for_status,
\* response.json(), the lastBuild test and job_data['lastBuild']['number']
latest_build_number(resp) ==
    IF raise_for_status(resp) # ""
    THEN [ok |-> FALSE, number |-> 0, error |-> raise_for_status(resp)]
    ELSE IF resp.json = None
    THEN [ok |-> FALSE, number |-> 0, error |-> "JSONDecodeError"]
    ELSE IF "lastBuild" \notin DOMAIN resp.json[1] \/ resp.json[1].lastBuild = None
    THEN [ok |-> FALSE, number |-> 0, error |-> ErrNoBuilds]
    ELSE IF "number" \notin DOMAIN resp.json[1].lastBuild[1]
    THEN [ok |-> FALSE, number |-> 0, error |-> "KeyError"]
    ELSE [ok |-> TRUE, number |-> resp.json[1].lastBuild[1].number, error |-> ""]

\* console_result returning the fetched text whatever parse_errors says
console_result_raw(text, parse_errors) == text

\* extract_error_block(response.text) if parse_errors else response.text
console_result(text, parse_errors) ==
    IF parse_errors
    THEN extract_error_block(text, DefaultMaxLines, None).excerpt
    ELSE text

\* return value of a client call
Success(value) == [ok |-> TRUE, value |-> <<value>>, wrapper |-> "", cause |-> ""]

\* raise Exception(f"<wrapper>: {str(e)}") out of the except clause
Failure(wrapper, cause) ==
    [ok |-> FALSE, value |-> <<>>, wrapper |-> wrapper, cause |-> cause]

FailedConsole == "Failed to fetch console log"

FailedJobInfo == "Failed to fetch job info"

----------------------------------------------------------------------------
(* The tool functions fetch_console_log and get_job_info of                 *)
(* jenkins_mcp_server.py. In the texts they build, the message of an        *)
(* exception and a key or string of the JSON metadata, which the model      *)
(* keeps whole, stand as one element each.                                  *)

FailedConsoleText ==
    <<"F", "a", "i", "l", "e", "d", " ", "t", "o", " ", "f", "e", "t", "c",
      "h", " ", "c", "o", "n", "s", "o", "l", "e", " ", "l", "o", "g">>

FailedJobInfoText ==
    <<"F", "a", "i", "l", "e", "d", " ", "t", "o", " ", "f", "e", "t", "c",
      "h", " ", "j", "o", "b", " ", "i", "n", "f", "o">>

\* str(e) of the exception a client call raised:
\* Exception(f"Failed to fetch ...: {str(e)}")
str_exception(outcome) ==
    (IF outcome.wrapper = FailedConsole THEN FailedConsoleText
     ELSE FailedJobInfoText) \o <<":", " ">> \o <<outcome.cause>>

ErrorFetchingConsoleLog ==
    <<"E", "r", "r", "o", "r", " ", "f", "e", "t", "c", "h", "i", "n", "g",
      " ", "c", "o", "n", "s", "o", "l", "e", " ", "l", "o", "g", ":", " ">>

ErrorFetchingJobInfo ==
    <<"E", "r", "r", "o", "r", " ", "f", "e", "t", "c", "h", "i", "n", "g",
      " ", "j", "o", "b", " ", "i", "n", "f", "o", ":", " ">>

\* log_type = "parsed error sections" if parse_errors else "full log"
log_type(parse_errors) ==
    IF parse_errors
    THEN <<"p", "a", "r", "s", "e", "d", " ", "e", "r", "r", "o", "r", " ",
           "s", "e", "c", "t", "i", "o", "n", "s">>
    ELSE <<"f", "u", "l", "l", " ", "l", "o", "g">>

LATEST == <<"l", "a", "t", "e", "s", "t">>

\* build_number or 'latest': None and 0 are both falsy
build_number_or_latest(build_number) ==
    IF build_number = None \/ build_number[1] = 0 THEN LATEST
    ELSE str_int(build_number[1])

\* the order of the keys in the bodies the server sends
JsonKeys == <<"name", "lastBuild", "number", "url">>

\* the indentation of json.dumps(..., indent=2) at a nesting depth
indent_of(depth) == [k \in 1..(2 * depth) |-> " "]

RECURSIVE json_members(_, _)
\* the members of an object, one per line, with ",\n" between them
json_members(members, k) ==
    IF k > Len(members) THEN <<>>
    ELSE members[k]
         \o (IF k < Len(members) THEN <<",", "\n">> ELSE <<>>)
         \o json_members(members, k + 1)

RECURSIVE json_dumps_at(_, _)
\* json.dumps(obj, indent=2) of an object at a nesting depth: a number in
\* decimal, a string between quotes, None as null, an object between braces
json_dumps_at(obj, depth) ==
    LET keys == SelectSeq(JsonKeys, LAMBDA k : k \in DOMAIN obj)
        value(k) ==
            IF k = "number" THEN str_int(obj[k])
            ELSE IF k = "lastBuild"
                 THEN IF obj[k] = None THEN <<"n", "u", "l", "l">>
                      ELSE json_dumps_at(obj[k][1], depth + 1)
                 ELSE <<"\"", obj[k], "\"">>
        member(k) ==
            indent_of(depth + 1) \o <<"\"", k, "\"", ":", " ">> \o value(k)
    IN  IF keys = <<>> THEN <<"{", "}">>
        ELSE <<"{", "\n">>
             \o json_members([i \in 1..Len(keys) |-> member(keys[i])], 1)
             \o <<"\n">> \o indent_of(depth) \o <<"}">>

\* formatted_info = json.dumps(job_info, indent=2)
json_dumps(job_info) == json_dumps_at(job_info, 0)

\* fetch_console_log without its except clause: the exception goes on
fetch_console_log_uncaught(url, build_number, parse_errors, outcome) ==
    IF outcome.ok
    THEN [raised |-> FALSE,
          text |-> <<"C", "o", "n", "s", "o", "l", "e", " ", "l", "o", "g",
                     " ", "(">> \o log_type(parse_errors)
                   \o <<")", " ", "f", "o", "r", " ", "j", "o", "b", " ">> \o url
                   \o <<" ", "(", "b", "u", "i", "l", "d", " ">> \o build_number_or_latest(build_number)
                   \o <<")", ":", "\n", "\n">> \o outcome.value[1]]
    ELSE [raised |-> TRUE, text |-> str_exception(outcome)]

\* fetch_console_log once the client call has ended: the text with the log
\* behind its heading, or the text of the except clause
fetch_console_log(url, build_number, parse_errors, outcome) ==
    IF outcome.ok
    THEN [raised |-> FALSE,
          text |-> <<"C", "o", "n", "s", "o", "l", "e", " ", "l", "o", "g",
                     " ", "(">> \o log_type(parse_errors)
                   \o <<")", " ", "f", "o", "r", " ", "j", "o", "b", " ">> \o url
                   \o <<" ", "(", "b", "u", "i", "l", "d", " ">> \o build_number_or_latest(build_number)
                   \o <<")", ":", "\n", "\n">> \o outcome.value[1]]
    ELSE [raised |-> FALSE,
          text |-> ErrorFetchingConsoleLog \o str_exception(outcome)]

\* get_job_info of the tool layer once the client call has ended: the text
\* with the formatted metadata, or the text of the except clause
get_job_info(url, outcome) ==
    IF outcome.ok
    THEN [raised |-> FALSE,
          text |-> <<"J", "o", "b", " ", "i", "n", "f", "o", "r", "m", "a",
                     "t", "i", "o", "n", " ", "f", "o", "r", " ">> \o url
                   \o <<":", "\n", "\n">> \o json_dumps(outcome.value[1])]
    ELSE [raised |-> FALSE,
          text |-> ErrorFetchingJobInfo \o str_exception(outcome)]

----------------------------------------------------------------------------
(* Inputs of the extractor *)

\* the text of line k of a numbered log: its two decimal digits
PlainLine(k) == <<Digits[((k \div 10) % 10) + 1], Digits[(k % 10) + 1]>>

\* a numbered line that holds a keyword, in the keyword's or in another case
ErrorLine(k) ==
    IF k % 2 = 0
    THEN <<"E", "R", "R", "O", "R", " ">> \o PlainLine(k)
    ELSE PlainLine(k) \o <<" ", "e", "x", "c", "e", "p", "t", "i", "o", "n">>

\* the numbered log of n lines whose lines at the indices in errs hold a keyword
NumberedLog(n, errs) ==
    join([k \in 1..n |-> IF (k - 1) \in errs THEN ErrorLine(k - 1)
                         ELSE PlainLine(k - 1)], "\n")

\* numbered logs of every length with at most one error line, and of the
\* greatest length with two
NumberedLogs ==
    {NumberedLog(n, {}) : n \in 0..MaxLogLen}
    \cup {NumberedLog(n[1], {n[2]}) :
             n \in {x \in (1..MaxLogLen) \X (0..MaxLogLen) : x[2] < x[1]}}
    \cup {NumberedLog(MaxLogLen, {e[1], e[2]}) :
             e \in {x \in (0..MaxLogLen) \X (0..MaxLogLen) :
                       x[1] < x[2] /\ x[2] < MaxLogLen}}

ShortLines == {
    <<"E", "R", "R", "O", "R">>,
    <<"a", " ", "f", "a", "i", "l", "e", "d">>,
    <<"o", "k">>,
    <<>> }

RECURSIVE LineLists(_)
\* all lists of at most n short lines
LineLists(n) ==
    IF n = 0 THEN {<<>>}
    ELSE LET shorter == LineLists(n - 1)
         IN  shorter \cup {Append(l, t) : l \in {x \in shorter : Len(x) = n - 1},
                                          t \in ShortLines}

\* the short logs: short lines joined by "\n", with or without a final "\n"
\* or "\r\n"
ShortLogs ==
    {join(l, "\n") \o e : l \in LineLists(MaxShortLen),
                          e \in {<<>>, <<"\n">>, <<"\r", "\n">>}}

KeywordArgs == {
    None,
    << << <<"E", "r", "r">> >> >>,
    << << <<"o", "k">>, <<"F", "a", "i", "l">> >> >>,
    << <<>> >> }

----------------------------------------------------------------------------
(* The extractor as a state machine: one call of extract_error_block *)

\* no call of _extract_job_path is under way
LocIdle ==
    /\ job_url = <<>>
    /\ loc_pc = "idle"
    /\ loc_result = NoResult

ExtInit ==
    /\ \/ /\ log_text \in NumberedLogs
          /\ max_lines \in {DefaultMaxLines, 5}
          /\ keywords = None
       \/ /\ log_text \in ShortLogs
          /\ max_lines \in {0, 1, 2, DefaultMaxLines}
          /\ keywords \in KeywordArgs
    /\ ext_pc = "call"
    /\ extracted = <<>>
    /\ added_indices = {}
    /\ order = <<>>
    /\ excerpt = <<>>
    /\ LocIdle
    /\ CliIdle
    /\ CallsIdle
    /\ ToolsIdle

ExtractErrorBlock ==
    /\ ext_pc = "call"
    /\ \E r \in {extract_error_block(log_text, max_lines, keywords)} :
           /\ extracted' = r.extracted
           /\ added_indices' = r.added_indices
           /\ order' = r.order
           /\ excerpt' = r.excerpt
    /\ ext_pc' = "done"
    /\ UNCHANGED <<log_text, max_lines, keywords>>
    /\ UNCHANGED loc_vars
    /\ UNCHANGED cli_vars
    /\ UNCHANGED frames
    /\ UNCHANGED tool_vars

ExtNext == ExtractErrorBlock

SpecExtractor == ExtInit /\ [][ExtNext]_vars

----------------------------------------------------------------------------
(* Inputs of the client: configurations, calls and what the server answers  *)

ConfigBaseUrls == {
    <<"h", "t", "t", "p", "s", ":", "/", "/", "h">>,
    <<"h", "t", "t", "p", "s", ":", "/", "/", "h", "/">>,
    <<"h", "t", "t", "p", "s", ":", "/", "/", "h", "/", "c", "i", "/">> }

ClientJobUrls == {
    <<"h", "t", "t", "p", "s", ":", "/", "/", "h", "/", "j", "o", "b", "/", "a", "/", "4", "2", "/">>,
    <<"h", "t", "t", "p", "s", ":", "/", "/", "h", "/", "j", "o", "b", "/", "a", "/", "j", "o", "b", "/", "b">>,
    <<"h", "t", "t", "p", "s", ":", "/", "/", "h", "/", "c", "i", "/", "j", "o", "b", "/", "a", "/", "7">>,
    <<"a", "/", "b">>,
    <<"h", "t", "t", "p", "s", ":", "/", "/", "h", "/", "x">>,
    <<"h", "t", "t", "p", ":", "/", "/", "e", ":", "8", "/", "j", "o", "b", "/", "a", "/", "3">>,
    <<"h", "t", "t", "p", ":", "/", "/", "e", ":", "8", "/", "j", "o", "b", "/", "a">>,
    <<"/", "j", "o", "b", "/", "a", "/">> }

\* the build_number argument: left out, or given
BuildNumberArgs == {None, <<5>>, <<0>>}

\* the last build number the server reports
LastBuildNumber == 12

ConsoleTexts == {
    <<"o", "k", "\n", "E", "R", "R", "O", "R", " ", "x", "\n", "o", "k">>,
    <<"o", "k", "\n", "f", "i", "n", "e">>,
    <<>> }

\* what may come back for the request of _get_latest_build_number
LatestBuildResponses == {
    NetworkError,
    Response(404, <<>>, None),
    Response(200, <<>>, None),
    Response(200, <<>>, <<[name |-> "a"]>>),
    Response(200, <<>>, <<[name |-> "a", lastBuild |-> None]>>),
    Response(200, <<>>, <<[name |-> "a", lastBuild |-> <<[url |-> "u"]>>]>>),
    Response(200, <<>>,
             <<[name |-> "a", lastBuild |-> <<[number |-> LastBuildNumber]>>]>>) }

\* what may come back for the consoleText request
ConsoleResponses ==
    {NetworkError, Response(404, <<"E", "R", "R", "O", "R", " ", "4", "0", "4">>, None)}
    \cup {Response(200, text, None) : text \in ConsoleTexts}

\* what may come back for the request of get_job_info
JobInfoResponses == {
    NetworkError,
    Response(500, <<>>, None),
    Response(200, <<>>, None),
    Response(200, <<>>, <<[name |-> "a"]>>),
    Response(200, <<>>, <<[name |-> "a", lastBuild |-> None]>>),
    Response(200, <<>>,
             <<[name |-> "a", lastBuild |-> <<[number |-> LastBuildNumber]>>]>>) }

----------------------------------------------------------------------------
(* The client as a state machine: one call of get_console_log or of        *)
(* get_job_info on a constructed JenkinsClient                              *)

ClientInit ==
    /\ config \in {[base_url |-> b] : b \in ConfigBaseUrls}
    /\ base_url = init_base_url(config.base_url)
    /\ cli_args \in
          {[fn |-> "get_console_log", job_url |-> u, build_number |-> n,
            parse_errors |-> pe] :
               u \in ClientJobUrls, n \in BuildNumberArgs, pe \in BOOLEAN}
          \cup {[fn |-> "get_job_info", job_url |-> u, build_number |-> None,
                 parse_errors |-> FALSE] : u \in ClientJobUrls}
    /\ cli_pc = "call"
    /\ cli_job_path = <<>>
    /\ cli_build_number = None
    /\ requests = <<>>
    /\ responses = <<>>
    /\ cli_result = [ok |-> FALSE, value |-> <<>>, wrapper |-> "", cause |-> ""]
    /\ LocIdle
    /\ ExtIdle
    /\ CallsIdle
    /\ ToolsIdle

\* get_console_log up to its first request: _extract_job_path and the choice
\* of the build number
GetConsoleLogLocate ==
    /\ cli_pc = "call"
    /\ cli_args.fn = "get_console_log"
    /\ \E r \in {extract_job_path(cli_args.job_url)} :
          IF r.ok
          THEN /\ cli_job_path' = r.job_path
               /\ cli_build_number' =
                     resolve_build_number(cli_args.build_number, r.build_number)
               /\ cli_pc' = IF cli_build_number' = None THEN "lookup"
                            ELSE "console"
               /\ UNCHANGED cli_result
          ELSE /\ cli_result' = Failure(FailedConsole, r.error)
               /\ cli_pc' = "done"
               /\ UNCHANGED <<cli_job_path, cli_build_number>>
    /\ UNCHANGED <<config, base_url, cli_args, requests, responses>>
    /\ UNCHANGED <<loc_vars, ext_vars, frames, tool_vars>>

\* _get_latest_build_number sends its request
LatestBuildSend ==
    /\ cli_pc = "lookup"
    /\ requests' = Append(requests,
                          Request(latest_build_url(base_url, cli_job_path),
                                  "_get_latest_build_number"))
    /\ cli_pc' = "lookup_wait"
    /\ UNCHANGED <<config, base_url, cli_args, cli_job_path, cli_build_number,
                   responses, cli_result>>
    /\ UNCHANGED <<loc_vars, ext_vars, frames, tool_vars>>

\* the request of _get_latest_build_number ends: the build number, or the
\* exception that get_console_log wraps
LatestBuildReceive ==
    /\ cli_pc = "lookup_wait"
    /\ \E resp \in LatestBuildResponses :
          /\ responses' = Append(responses, resp)
          /\ \E r \in {latest_build_number(resp)} :
                IF r.ok
                THEN /\ cli_build_number' = <<r.number>>
                     /\ cli_pc' = "console"
                     /\ UNCHANGED cli_result
                ELSE /\ cli_result' = Failure(FailedConsole, r.error)
                     /\ cli_pc' = "done"
                     /\ UNCHANGED cli_build_number
    /\ UNCHANGED <<config, base_url, cli_args, cli_job_path, requests>>
    /\ UNCHANGED <<loc_vars, ext_vars, frames, tool_vars>>

\* get_console_log sends the consoleText request
ConsoleSend ==
    /\ cli_pc = "console"
    /\ requests' = Append(requests,
                          Request(console_url(base_url, cli_job_path,
                                              cli_build_number[1]),
                                  "get_console_log"))
    /\ cli_pc' = "console_wait"
    /\ UNCHANGED <<config, base_url, cli_args, cli_job_path, cli_build_number,
                   responses, cli_result>>
    /\ UNCHANGED <<loc_vars, ext_vars, frames, tool_vars>>

\* the consoleText request ends: the log, whole or reduced, or the exception
ConsoleReceive ==
    /\ cli_pc = "console_wait"
    /\ \E resp \in ConsoleResponses :
          /\ responses' = Append(responses, resp)
          /\ \E e \in {raise_for_status(resp)} :
                cli_result' =
                    IF e # "" THEN Failure(FailedConsole, e)
                    ELSE Success(console_result(resp.text, cli_args.parse_errors))
    /\ cli_pc' = "done"
    /\ UNCHANGED <<config, base_url, cli_args, cli_job_path, cli_build_number,
                   requests>>
    /\ UNCHANGED <<loc_vars, ext_vars, frames, tool_vars>>

\* get_job_info up to its request: _extract_job_path
GetJobInfoLocate ==
    /\ cli_pc = "call"
    /\ cli_args.fn = "get_job_info"
    /\ \E r \in {extract_job_path(cli_args.job_url)} :
          IF r.ok
          THEN /\ cli_job_path' = r.job_path
               /\ cli_build_number' = r.build_number
               /\ cli_pc' = "info"
               /\ UNCHANGED cli_result
          ELSE /\ cli_result' = Failure(FailedJobInfo, r.error)
               /\ cli_pc' = "done"
               /\ UNCHANGED <<cli_job_path, cli_build_number>>
    /\ UNCHANGED <<config, base_url, cli_args, requests, responses>>
    /\ UNCHANGED <<loc_vars, ext_vars, frames, tool_vars>>

\* get_job_info sends its request
JobInfoSend ==
    /\ cli_pc = "info"
    /\ requests' = Append(requests,
                          Request(job_info_url(base_url, cli_job_path,
                                               cli_build_number),
                                  "get_job_info"))
    /\ cli_pc' = "info_wait"
    /\ UNCHANGED <<config, base_url, cli_args, cli_job_path, cli_build_number,
                   responses, cli_result>>
    /\ UNCHANGED <<loc_vars, ext_vars, frames, tool_vars>>

\* the request of get_job_info ends: response.json(), or the exception
JobInfoReceive ==
    /\ cli_pc = "info_wait"
    /\ \E resp \in JobInfoResponses :
          /\ responses' = Append(responses, resp)
          /\ \E e \in {raise_for_status(resp)} :
                cli_result' =
                    IF e # "" THEN Failure(FailedJobInfo, e)
                    ELSE IF resp.json = None
                         THEN Failure(FailedJobInfo, "JSONDecodeError")
                         ELSE Success(resp.json[1])
    /\ cli_pc' = "done"
    /\ UNCHANGED <<config, base_url, cli_args, cli_job_path, cli_build_number,
                   requests>>
    /\ UNCHANGED <<loc_vars, ext_vars, frames, tool_vars>>

ClientNext ==
    \/ GetConsoleLogLocate
    \/ LatestBuildSend
    \/ LatestBuildReceive
    \/ ConsoleSend
    \/ ConsoleReceive
    \/ GetJobInfoLocate
    \/ JobInfoSend
    \/ JobInfoReceive

SpecClient == ClientInit /\ [][ClientNext]_vars

----------------------------------------------------------------------------
(* The tool functions as a state machine: one call of fetch_console_log or *)
(* of get_job_info, which awaits the client call it makes                   *)

\* the build_number argument of the tool: left out, or given (ge=1)
ToolBuildNumberArgs == {None, <<5>>}

ToolsInit ==
    /\ config \in {[base_url |-> b] : b \in ConfigBaseUrls}
    /\ base_url = init_base_url(config.base_url)
    /\ cli_args = [fn |-> "", job_url |-> <<>>, build_number |-> None,
                   parse_errors |-> FALSE]
    /\ cli_pc = "idle"
    /\ cli_job_path = <<>>
    /\ cli_build_number = None
    /\ requests = <<>>
    /\ responses = <<>>
    /\ cli_result = [ok |-> FALSE, value |-> <<>>, wrapper |-> "", cause |-> ""]
    /\ tool_call \in
          {[fn |-> "fetch_console_log", job_url |-> u, build_number |-> n,
            parse_errors |-> pe] :
               u \in ClientJobUrls, n \in ToolBuildNumberArgs, pe \in BOOLEAN}
          \cup {[fn |-> "get_job_info", job_url |-> u, build_number |-> None,
                 parse_errors |-> FALSE] : u \in ClientJobUrls}
    /\ tool_pc = "call"
    /\ tool_result = NoToolResult
    /\ LocIdle
    /\ ExtIdle
    /\ CallsIdle

\* await ctx.deps.jenkins_client.get_console_log(job_url, build_number,
\* parse_errors)
FetchConsoleLogCall ==
    /\ tool_pc = "call"
    /\ tool_call.fn = "fetch_console_log"
    /\ cli_args' = [fn |-> "get_console_log", job_url |-> tool_call.job_url,
                    build_number |-> tool_call.build_number,
                    parse_errors |-> tool_call.parse_errors]
    /\ cli_pc' = "call"
    /\ tool_pc' = "await"
    /\ UNCHANGED <<config, base_url, cli_job_path, cli_build_number, requests,
                   responses, cli_result, tool_call, tool_result>>
    /\ UNCHANGED <<loc_vars, ext_vars, frames>>

\* the client call has ended: fetch_console_log returns its text
FetchConsoleLogReturn ==
    /\ tool_pc = "await"
    /\ tool_call.fn = "fetch_console_log"
    /\ cli_pc = "done"
    /\ tool_result' = fetch_console_log(tool_call.job_url,
                                        tool_call.build_number,
                                        tool_call.parse_errors, cli_result)
    /\ tool_pc' = "done"
    /\ UNCHANGED tool_call
    /\ UNCHANGED <<loc_vars, ext_vars, cli_vars, frames>>

\* await ctx.deps.jenkins_client.get_job_info(job_url)
ToolGetJobInfoCall ==
    /\ tool_pc = "call"
    /\ tool_call.fn = "get_job_info"
    /\ cli_args' = [fn |-> "get_job_info", job_url |-> tool_call.job_url,
                    build_number |-> None, parse_errors |-> FALSE]
    /\ cli_pc' = "call"
    /\ tool_pc' = "await"
    /\ UNCHANGED <<config, base_url, cli_job_path, cli_build_number, requests,
                   responses, cli_result, tool_call, tool_result>>
    /\ UNCHANGED <<loc_vars, ext_vars, frames>>

\* the client call has ended: get_job_info returns its text
ToolGetJobInfoReturn ==
    /\ tool_pc = "await"
    /\ tool_call.fn = "get_job_info"
    /\ cli_pc = "done"
    /\ tool_result' = get_job_info(tool_call.job_url, cli_result)
    /\ tool_pc' = "done"
    /\ UNCHANGED tool_call
    /\ UNCHANGED <<loc_vars, ext_vars, cli_vars, frames>>

ToolsNext ==
    \/ FetchConsoleLogCall
    \/ FetchConsoleLogReturn
    \/ ToolGetJobInfoCall
    \/ ToolGetJobInfoReturn
    \/ GetConsoleLogLocate
    \/ LatestBuildSend
    \/ LatestBuildReceive
    \/ ConsoleSend
    \/ ConsoleReceive
    \/ GetJobInfoLocate
    \/ JobInfoSend
    \/ JobInfoReceive

SpecTools == ToolsInit /\ [][ToolsNext]_vars

----------------------------------------------------------------------------
(* Interleaved calls of _extract_job_path and extract_error_block, one      *)
(* statement at a time. frames[c] holds the arguments and the local         *)
(* variables of call c, under their names in the code.                      *)

\* the frame of a call that has not run yet
Frame(fn, url, text, m, kwarg) ==
    [fn |-> fn, pc |-> IF fn = "_extract_job_path" THEN "scheme" ELSE "keywords",
     overlapped |-> FALSE,
     args |-> [job_url |-> url, log_text |-> text, max_lines |-> m,
               keywords |-> kwarg],
     job_url |-> url, path |-> <<>>, build_number |-> None, prefix |-> <<>>,
     job_portion |-> <<>>, job_match |-> <<>>, job_path |-> <<>>,
     full_path |-> <<>>, result |-> NoResult,
     log_text |-> text, max_lines |-> m, keywords |-> kwarg, lines |-> <<>>,
     extracted |-> <<>>, added_indices |-> {}, i |-> 0, j |-> 0, end |-> 0,
     excerpt |-> <<>>]

CallJobUrls == {
    <<"h", "t", "t", "p", "s", ":", "/", "/", "h", "/", "t", "/", "j", "o", "b", "/", "a", "/", "j", "o", "b", "/", "b", "/", "7", "/">>,
    <<"a", "/", "b", "/">>,
    <<"h", "t", "t", "p", ":", "/", "/", "h", "/", "x">> }

CallFrames ==
    {Frame("_extract_job_path", u, <<>>, 0, None) : u \in CallJobUrls}
    \cup {Frame("extract_error_block", <<>>, <<"o", "k", "\n", "E", "R", "R", "O", "R">>, DefaultMaxLines, None),
          Frame("extract_error_block", <<>>, <<"E", "R", "R", "O", "R", "\n", "E", "R", "R", "O", "R">>, 1, << <<<<"E", "r", "r">>>> >>)}

\* added_indices as one set that all calls share
added_indices_shared(fr, c) == UNION {fr[d].added_indices : d \in DOMAIN fr}

\* the set added_indices that call c tests and extends: its own local
added_indices_of(fr, c) == fr[c].added_indices

\* some other call has begun and has not returned
OtherInProgress(c) ==
    \E d \in DOMAIN frames :
        d # c /\ frames[d].pc \notin {"scheme", "keywords", "done"}

\* call c runs one statement, which leaves its frame as f
Advance(c, f) ==
    /\ frames' = [frames EXCEPT
                    ![c] = [f EXCEPT !.overlapped = @ \/ OtherInProgress(c)]]
    /\ UNCHANGED <<loc_vars, ext_vars, cli_vars, tool_vars>>

CallsInit ==
    /\ \E n \in 1..MaxCalls : frames \in [1..n -> CallFrames]
    /\ LocIdle
    /\ ExtIdle
    /\ CliIdle
    /\ ToolsIdle

\* if job_url.startswith('http'): ... else: return job_url.strip('/'), None
LocateScheme(c) ==
    /\ frames[c].pc = "scheme"
    /\ Advance(c,
         IF startswith(frames[c].job_url, HTTP)
         THEN [frames[c] EXCEPT !.pc = "parse"]
         ELSE [frames[c] EXCEPT
                 !.result = [ok |-> TRUE, job_path |-> strip(frames[c].job_url, "/"),
                             build_number |-> None, error |-> ""],
                 !.pc = "done"])

\* parsed = urlparse(job_url); path = parsed.path.rstrip('/')
LocateParse(c) ==
    /\ frames[c].pc = "parse"
    /\ Advance(c, [frames[c] EXCEPT
                     !.path = rstrip(urlparse(frames[c].job_url).path, "/"),
                     !.pc = "build"])

\* build_number = None; build_match = ...; if build_match: ...
LocateBuildNumber(c) ==
    /\ frames[c].pc = "build"
    /\ \E bm \in {build_match(frames[c].path)} :
          Advance(c,
            IF bm # 0
            THEN [frames[c] EXCEPT
                    !.build_number = <<int(From(frames[c].path, bm + 1))>>,
                    !.path = SubSeq(frames[c].path, 1, bm - 1),
                    !.pc = "marker"]
            ELSE [frames[c] EXCEPT !.pc = "marker"])

\* if '/job/' in path: ... else: raise ValueError
LocateMarker(c) ==
    /\ frames[c].pc = "marker"
    /\ Advance(c,
         IF contains(frames[c].path, JOB)
         THEN [frames[c] EXCEPT !.pc = "prefix"]
         ELSE [frames[c] EXCEPT
                 !.result = [ok |-> FALSE, job_path |-> <<>>,
                             build_number |-> None, error |-> ErrNoJobPath],
                 !.pc = "done"])

\* job_start = path.find('/job/'); prefix = ...; job_portion = path[job_start:]
LocatePrefix(c) ==
    /\ frames[c].pc = "prefix"
    /\ \E job_start \in {find(frames[c].path, JOB)} :
          Advance(c, [frames[c] EXCEPT
                        !.prefix = prefix_before(frames[c].path, job_start),
                        !.job_portion = From(frames[c].path, job_start),
                        !.pc = "match"])

\* job_match = re.search(...); if job_match: ... else: raise ValueError
LocateMatch(c) ==
    /\ frames[c].pc = "match"
    /\ \E jm \in {job_match(frames[c].job_portion)} :
          Advance(c,
            IF jm # <<>>
            THEN [frames[c] EXCEPT !.job_match = jm[1], !.pc = "collapse"]
            ELSE [frames[c] EXCEPT
                    !.result = [ok |-> FALSE, job_path |-> <<>>,
                                build_number |-> None,
                                error |-> ErrCannotExtract],
                    !.pc = "done"])

\* job_path = job_match.group(1).replace('/job/', '/')
LocateCollapse(c) ==
    /\ frames[c].pc = "collapse"
    /\ Advance(c, [frames[c] EXCEPT
                     !.job_path = replace(frames[c].job_match, JOB, <<"/">>),
                     !.pc = "rebuild"])

\* full_path = prefix + '/job/' + job_path.replace('/', '/job/')
LocateRebuild(c) ==
    /\ frames[c].pc = "rebuild"
    /\ Advance(c, [frames[c] EXCEPT
                     !.full_path = canonical_path(frames[c].prefix,
                                                  frames[c].job_path),
                     !.pc = "return"])

\* return full_path.lstrip('/'), build_number
LocateReturn(c) ==
    /\ frames[c].pc = "return"
    /\ Advance(c, [frames[c] EXCEPT
                     !.result = [ok |-> TRUE,
                                 job_path |-> lstrip(frames[c].full_path, "/"),
                                 build_number |-> frames[c].build_number,
                                 error |-> ""],
                     !.pc = "done"])

\* if keywords is None: keywords = [...]
ExtractKeywords(c) ==
    /\ frames[c].pc = "keywords"
    /\ Advance(c, [frames[c] EXCEPT
                     !.keywords = IF @ = None THEN <<DefaultKeywords>> ELSE @,
                     !.pc = "split"])

\* lines = log_text.splitlines(); extracted = []; added_indices = set()
ExtractSplit(c) ==
    /\ frames[c].pc = "split"
    /\ Advance(c, [frames[c] EXCEPT
                     !.lines = splitlines(frames[c].log_text),
                     !.extracted = <<>>,
                     !.added_indices = {},
                     !.i = 0,
                     !.pc = "for"])

\* for i, line in enumerate(lines): if any(...):
ExtractFor(c) ==
    /\ frames[c].pc = "for"
    /\ Advance(c,
         IF frames[c].i >= Len(frames[c].lines)
         THEN [frames[c] EXCEPT !.pc = "join"]
         ELSE IF any_keyword(frames[c].lines[frames[c].i + 1],
                             frames[c].keywords[1])
         THEN [frames[c] EXCEPT !.pc = "window"]
         ELSE [frames[c] EXCEPT !.i = @ + 1])

\* start = max(0, i - 10); end = min(len(lines), i + 20)
ExtractWindow(c) ==
    /\ frames[c].pc = "window"
    /\ Advance(c, [frames[c] EXCEPT
                     !.j = window_start(frames[c].i),
                     !.end = window_end(frames[c].i, Len(frames[c].lines)),
                     !.pc = "range"])

\* for j in range(start, end): if j not in added_indices:
ExtractRange(c) ==
    /\ frames[c].pc = "range"
    /\ Advance(c,
         IF frames[c].j >= frames[c].end
         THEN [frames[c] EXCEPT !.i = @ + 1, !.pc = "for"]
         ELSE IF frames[c].j \in added_indices_of(frames, c)
         THEN [frames[c] EXCEPT !.j = @ + 1]
         ELSE [frames[c] EXCEPT !.pc = "append"])

\* extracted.append(lines[j])
ExtractAppend(c) ==
    /\ frames[c].pc = "append"
    /\ Advance(c, [frames[c] EXCEPT
                     !.extracted = Append(@, frames[c].lines[frames[c].j + 1]),
                     !.pc = "add"])

\* added_indices.add(j)
ExtractAdd(c) ==
    /\ frames[c].pc = "add"
    /\ Advance(c, [frames[c] EXCEPT
                     !.added_indices = @ \cup {frames[c].j},
                     !.j = @ + 1,
                     !.pc = "range"])

\* return "\n".join(extracted[-max_lines:])
ExtractJoin(c) ==
    /\ frames[c].pc = "join"
    /\ Advance(c, [frames[c] EXCEPT
                     !.excerpt = join(last_entries(frames[c].extracted,
                                                   frames[c].max_lines), "\n"),
                     !.pc = "done"])

CallsNext ==
    \/ \E c \in DOMAIN frames : LocateScheme(c)
    \/ \E c \in DOMAIN frames : LocateParse(c)
    \/ \E c \in DOMAIN frames : LocateBuildNumber(c)
    \/ \E c \in DOMAIN frames : LocateMarker(c)
    \/ \E c \in DOMAIN frames : LocatePrefix(c)
    \/ \E c \in DOMAIN frames : LocateMatch(c)
    \/ \E c \in DOMAIN frames : LocateCollapse(c)
    \/ \E c \in DOMAIN frames : LocateRebuild(c)
    \/ \E c \in DOMAIN frames : LocateReturn(c)
    \/ \E c \in DOMAIN frames : ExtractKeywords(c)
    \/ \E c \in DOMAIN frames : ExtractSplit(c)
    \/ \E c \in DOMAIN frames : ExtractFor(c)
    \/ \E c \in DOMAIN frames : ExtractWindow(c)
    \/ \E c \in DOMAIN frames : ExtractRange(c)
    \/ \E c \in DOMAIN frames : ExtractAppend(c)
    \/ \E c \in DOMAIN frames : ExtractAdd(c)
    \/ \E c \in DOMAIN frames : ExtractJoin(c)

SpecCalls == CallsInit /\ [][CallsNext]_vars

----------------------------------------------------------------------------
(* Vocabulary of the locator's contract *)

\* the input starts with the scheme of a Jenkins URL, http:// or https://
UrlShaped(u) ==
    \/ startswith(u, <<"h", "t", "t", "p", ":", "/", "/">>)
    \/ startswith(u, <<"h", "t", "t", "p", "s", ":", "/", "/">>)

RECURSIVE split(_, _)
\* the pieces of s between the occurrences of the character c
split(s, c) ==
    LET i == find(s, <<c>>)
    IN  IF i = 0 THEN <<s>>
        ELSE <<SubSeq(s, 1, i - 1)>> \o split(From(s, i + 1), c)

\* the segments of the URL's path, read behind its leading slash and without
\* one trailing slash
PathSegments(u) ==
    LET p    == urlparse(u).path
        body == IF p # <<>> /\ p[Len(p)] = "/" THEN SubSeq(p, 1, Len(p) - 1)
                ELSE p
    IN  IF body = <<>> THEN <<>> ELSE Tail(split(body, "/"))

JobMarker == <<"j", "o", "b">>

\* a purely numeric segment
IsNumber(seg) == seg # <<>> /\ \A k \in 1..Len(seg) : isdigit(seg[k])

\* one or more job/<name> pairs
IsJobPairs(segs) ==
    /\ Len(segs) >= 2
    /\ Len(segs) % 2 = 0
    /\ \A k \in 1..Len(segs) :
          IF k % 2 = 1 THEN segs[k] = JobMarker ELSE segs[k] # <<>>

\* segs without its leading empty segments
RECURSIVE DropEmptyLead(_)
DropEmptyLead(segs) ==
    IF segs # <<>> /\ segs[1] = <<>> THEN DropEmptyLead(Tail(segs)) ELSE segs

\* the segments in front of the first job marker
MountPrefix(segs) ==
    LET marks == {k \in 1..Len(segs) : segs[k] = JobMarker}
        m     == CHOOSE k \in marks : \A q \in marks : k <= q
    IN  IF marks = {} THEN <<>> ELSE DropEmptyLead(SubSeq(segs, 1, m - 1))

Returned(path, build) ==
    [ok |-> TRUE, job_path |-> path, build_number |-> build, error |-> ""]

Raised(err) ==
    [ok |-> FALSE, job_path |-> <<>>, build_number |-> None, error |-> err]

----------------------------------------------------------------------------
(* Claims about the locator, checked under SpecLocator *)

\* C1: every input that does not start with a URL scheme (a bare path) comes
\* back with its leading and trailing slashes stripped and no build number.
\* The code takes every input that starts with the letters http for a URL.
C1_BarePathVerbatim ==
    (loc_pc = "done" /\ ~UrlShaped(job_url))
        => loc_result = Returned(strip(job_url, "/"), None)

\* C2: a URL whose path is one or more job/<name> pairs followed by a purely
\* numeric final segment, with or without a trailing slash, yields the pairs
\* as the job path and the integer value of the final segment as the build
\* number.
C2_BuildNumberStripped ==
    LET S == PathSegments(job_url)
    IN  (/\ loc_pc = "done"
         /\ UrlShaped(job_url)
         /\ Len(S) >= 3
         /\ IsJobPairs(SubSeq(S, 1, Len(S) - 1))
         /\ IsNumber(S[Len(S)]))
            => loc_result = Returned(join(SubSeq(S, 1, Len(S) - 1), "/"),
                                     <<int(S[Len(S)])>>)

\* https://h/job/a/job/b/42/ has been located as ("job/a/job/b", 42)
C2_Witness ==
    /\ loc_pc = "done"
    /\ job_url = <<"h","t","t","p","s",":","/","/","h","/","j","o","b","/","a","/","j","o","b","/","b","/","4","2","/">>
    /\ loc_result = Returned(<<"j","o","b","/","a","/","j","o","b","/","b">>, <<42>>)

\* C3: when a URL whose path has segments in front of its first job marker is
\* located, the returned path is those segments, unchanged and in order,
\* followed by job/<name> pairs.
C3_MountPrefixPreserved ==
    LET pre == MountPrefix(PathSegments(job_url))
        R   == split(loc_result.job_path, "/")
    IN  (/\ loc_pc = "done"
         /\ UrlShaped(job_url)
         /\ loc_result.ok
         /\ pre # <<>>)
            => /\ Len(R) > Len(pre)
               /\ SubSeq(R, 1, Len(pre)) = pre
               /\ IsJobPairs(SubSeq(R, Len(pre) + 1, Len(R)))

\* https://h/team/job/a/ has been located as ("team/job/a", no build number)
C3_Witness ==
    /\ loc_pc = "done"
    /\ job_url = <<"h","t","t","p","s",":","/","/","h","/","t","e","a","m","/","j","o","b","/","a","/">>
    /\ loc_result = Returned(<<"t","e","a","m","/","j","o","b","/","a">>, None)

\* C4: a URL whose path has no job marker segment fails with the no-job-marker
\* error, and neither a job path nor a build number comes back.
C4_NoJobMarkerFails ==
    LET S == PathSegments(job_url)
    IN  (/\ loc_pc = "done"
         /\ UrlShaped(job_url)
         /\ \A k \in 1..Len(S) : S[k] # JobMarker)
            => loc_result = Raised(ErrNoJobPath)

\* https://h/no-job-marker/ has failed with the no-job-marker error
C4_Witness ==
    /\ loc_pc = "done"
    /\ job_url = <<"h","t","t","p","s",":","/","/","h","/","n","o","-","j","o","b","-","m","a","r","k","e","r","/">>
    /\ loc_result = Raised(ErrNoJobPath)

\* C5: a build number that comes back is absent or strictly positive.
\* The code takes a final segment of zeros for build number 0.
C5_BuildNumberPositive ==
    (loc_pc = "done" /\ loc_result.ok)
        => \/ loc_result.build_number = None
           \/ loc_result.build_number[1] > 0

\* C6: a job path that comes back, for a URL or for a bare path, is not empty.
\* The code returns the empty path for a bare path made of slashes only.
C6_JobPathNonEmpty ==
    (loc_pc = "done" /\ loc_result.ok) => loc_result.job_path # <<>>

\* the segments of the URL's path without its trailing slashes and, when the
\* final segment is purely numeric, without that segment
RemainingSegments(u) ==
    LET p    == rstrip(urlparse(u).path, "/")
        segs == IF p = <<>> THEN <<>> ELSE Tail(split(p, "/"))
    IN  IF segs # <<>> /\ IsNumber(segs[Len(segs)])
        THEN SubSeq(segs, 1, Len(segs) - 1) ELSE segs

RECURSIVE PairRun(_, _)
\* the maximal run of job/<name> pairs that starts at segment k
PairRun(segs, k) ==
    IF k + 1 <= Len(segs) /\ segs[k] = JobMarker /\ segs[k + 1] # <<>>
    THEN <<segs[k], segs[k + 1]>> \o PairRun(segs, k + 2)
    ELSE <<>>

\* the position of the first job marker among the segments, 0 for none
FirstMarker(segs) ==
    LET marks == {k \in 1..Len(segs) : segs[k] = JobMarker}
    IN  IF marks = {} THEN 0 ELSE CHOOSE k \in marks : \A q \in marks : k <= q

\* the prefix in front of the first job marker followed by the maximal run of
\* job/<name> pairs that starts at that marker, as a path without leading slash
PrefixAndRun(segs) ==
    lstrip(join(SubSeq(segs, 1, FirstMarker(segs) - 1)
                \o PairRun(segs, FirstMarker(segs)), "/"), "/")

\* C21: whenever a URL is located, the returned path is exactly the prefix in
\* front of the first job marker followed by the maximal run of job/<name>
\* pairs that starts at that marker, the marker in front of every name, also
\* of a name that is itself "job"; segments behind the run are left out.
\* The code skips a first marker that has an empty name behind it and takes
\* the run of a later marker, dropping the segments in between.
C21_PrefixAndMaximalRun ==
    (loc_pc = "done" /\ UrlShaped(job_url) /\ loc_result.ok) =>
        loc_result.job_path = PrefixAndRun(RemainingSegments(job_url))

\* C21 for URLs whose first job marker has a name behind it
C21_NamedFirstMarker ==
    (loc_pc = "done" /\ UrlShaped(job_url) /\ loc_result.ok) =>
        \A segs \in {RemainingSegments(job_url)} :
            PairRun(segs, FirstMarker(segs)) # <<>> =>
                loc_result.job_path = PrefixAndRun(segs)

----------------------------------------------------------------------------
(* Vocabulary of the extractor's contract *)

\* line holds kw as a substring when letter case is ignored
HoldsNoCase(line, kw) ==
    \E p \in 0..(Len(line) - Len(kw)) :
        \A q \in 1..Len(kw) : lower_char(line[p + q]) = lower_char(kw[q])

\* the keywords in effect in the call
KeywordsInEffect == IF keywords = None THEN DefaultKeywords ELSE keywords[1]

\* the 0-based indices of the lines that hold some keyword
ErrorIndices(L) ==
    {i \in 0..(Len(L) - 1) :
        \E k \in 1..Len(KeywordsInEffect) :
            HoldsNoCase(L[i + 1], KeywordsInEffect[k])}

\* line i with b lines in front of it and a lines behind it, within n lines
Window(i, n, b, a) == {j \in 0..(n - 1) : i - b <= j /\ j <= i + a}

----------------------------------------------------------------------------
(* Claims about the extractor, checked under SpecExtractor *)

\* C7: the indices selected before truncation are exactly the union, over the
\* lines i that hold a keyword, of the 10 lines in front of i, line i and
\* the 20 lines behind i, clipped to the log.
\* The code's window ends before line i + 20: range(start, min(len, i + 20)).
C7_WindowTenTwenty ==
    ext_pc = "done" =>
        \A L \in {splitlines(log_text)} :
            added_indices =
                UNION {Window(i, Len(L), 10, 20) : i \in ErrorIndices(L)}

\* C7 as amended: the window of a matching line i is the 10 lines in front of
\* i, line i and the 19 lines behind i, clipped to the log; the selected
\* indices are exactly the union of these windows.
C7_WindowTenNineteen ==
    ext_pc = "done" =>
        \A L \in {splitlines(log_text)} :
            added_indices =
                UNION {Window(i, Len(L), 10, 19) : i \in ErrorIndices(L)}

\* two matching lines with overlapping windows, the first window clipped by
\* the start of the log, the second ending 19 lines behind its match although
\* the log goes on
C7_Witness ==
    /\ ext_pc = "done"
    /\ \E L \in {splitlines(log_text)} :
          \E i1, i2 \in ErrorIndices(L) :
              /\ i1 < 10
              /\ i1 < i2
              /\ i2 <= i1 + 19
              /\ i2 + 20 < Len(L)
              /\ ErrorIndices(L) = {i1, i2}
              /\ added_indices = 0..(i2 + 19)

\* C8: for a log of 50 lines of which only line 25 holds a keyword, and the
\* default max_lines, the excerpt is lines 15 to 44, each once, in their
\* original order.
C8_FiftyLines ==
    (ext_pc = "done" /\ max_lines = DefaultMaxLines) =>
        \A L \in {splitlines(log_text)} :
            (Len(L) = 50 /\ ErrorIndices(L) = {25}) =>
                /\ excerpt = join(SubSeq(L, 16, 45), "\n")
                /\ order = [k \in 1..30 |-> 14 + k]

\* the call on a log of 50 lines with its only keyword in line 25 has returned
\* lines 15 to 44
C8_Witness ==
    /\ ext_pc = "done"
    /\ max_lines = DefaultMaxLines
    /\ \E L \in {splitlines(log_text)} :
          /\ Len(L) = 50
          /\ ErrorIndices(L) = {25}
          /\ excerpt = join(SubSeq(L, 16, 45), "\n")

\* C9: when no line holds a keyword, in any letter case, the excerpt is the
\* empty string and not the log.
C9_NoMatchEmpty ==
    (ext_pc = "done" /\ ErrorIndices(splitlines(log_text)) = {})
        => excerpt = <<>>

\* a log with lines, none of them holding a keyword, has given the empty string
C9_Witness ==
    /\ ext_pc = "done"
    /\ Len(splitlines(log_text)) >= 2
    /\ ErrorIndices(splitlines(log_text)) = {}
    /\ excerpt = <<>>

\* C10: for max_lines >= 1 the excerpt has at most max_lines lines, and when
\* more than max_lines entries were accumulated it is exactly the last
\* max_lines of them: entries are dropped from the front only.
C10_TailTruncation ==
    (ext_pc = "done" /\ max_lines >= 1) =>
        /\ Len(splitlines(excerpt)) <= max_lines
        /\ Len(extracted) > max_lines =>
              excerpt = join(SubSeq(extracted, Len(extracted) - max_lines + 1,
                                    Len(extracted)), "\n")

\* more lines than max_lines were accumulated and the excerpt has max_lines
\* lines
C10_Witness ==
    /\ ext_pc = "done"
    /\ max_lines >= 1
    /\ Len(extracted) > max_lines
    /\ Len(splitlines(excerpt)) = max_lines

\* the indices inside the window of some line that holds a keyword: from 10
\* lines in front of it to 19 lines behind it
Covered(L) == UNION {Window(i, Len(L), 10, 19) : i \in ErrorIndices(L)}

\* C11: every line index inside some window stands behind exactly one entry of
\* the accumulated list, however many windows cover it (the entries' indices
\* are these indices, and there are as many entries as indices), and every
\* entry is the line at its index: lines of equal text at different indices
\* are both kept.
C11_OneEntryPerIndex ==
    ext_pc = "done" =>
        \A L \in {splitlines(log_text)} : \A inside \in {Covered(L)} :
            /\ Len(order) = Len(extracted)
            /\ {order[k] : k \in 1..Len(order)} = inside
            /\ Len(order) = Cardinality(inside)
            /\ \A k \in 1..Len(order) : extracted[k] = L[order[k] + 1]

\* two matching lines whose windows cover the same indices, and two lines of
\* equal text that were both kept
C11_Witness ==
    /\ ext_pc = "done"
    /\ \E L \in {splitlines(log_text)} :
          /\ Cardinality(ErrorIndices(L)) >= 2
          /\ Len(extracted) = Len(L)
          /\ \E a, b \in 1..Len(extracted) :
                a # b /\ extracted[a] = extracted[b]

\* C12: when the input has at most max_lines lines and every one of them lies
\* inside the window of some matching line, the accumulated list is the
\* input's lines in their order and the returned text is these lines joined
\* by "\n"; read back as lines it gives the input's lines, unless the input's
\* last line is empty.
C12_CoveredInputReturned ==
    ext_pc = "done" =>
        \A L \in {splitlines(log_text)} :
            (Len(L) <= max_lines /\ Covered(L) = 0..(Len(L) - 1)) =>
                /\ extracted = L
                /\ excerpt = join(L, "\n")
                /\ (L = <<>> \/ L[Len(L)] # <<>>) => splitlines(excerpt) = L

\* a log of exactly max_lines lines, not all of them matching, every line
\* inside a window, has come back whole
C12_Witness ==
    /\ ext_pc = "done"
    /\ \E L \in {splitlines(log_text)} :
          /\ Len(L) = max_lines
          /\ Len(L) >= 2
          /\ Cardinality(ErrorIndices(L)) < Len(L)
          /\ Covered(L) = 0..(Len(L) - 1)
          /\ excerpt = join(L, "\n")

\* C20: the accumulated lines are in strictly increasing order of their
\* original index: the order of discovery is the sorted order.
C20_IncreasingOrder ==
    ext_pc = "done" =>
        /\ Len(order) = Len(extracted)
        /\ \A a, b \in 1..Len(order) : a < b => order[a] < order[b]

\* two matching lines with overlapping windows, the second reaching beyond the
\* first, have been accumulated
C20_Witness ==
    /\ ext_pc = "done"
    /\ \E L \in {splitlines(log_text)} :
          \E i1, i2 \in ErrorIndices(L) :
              /\ i1 < i2
              /\ i2 - 10 < i1 + 19
              /\ i2 - 10 > 0
              /\ i2 + 19 < Len(L)
              /\ Len(order) = i2 + 20 - (IF i1 > 10 THEN i1 - 10 ELSE 0)

\* C23: with max_lines = 0 the excerpt is empty, whatever the log holds.
\* The code slices extracted[-0:], which is the whole list.
C23_ZeroMaxLinesEmpty ==
    (ext_pc = "done" /\ max_lines = 0) => excerpt = <<>>

\* what the code returns with max_lines = 0: every accumulated line
C23_ZeroKeepsAll ==
    (ext_pc = "done" /\ max_lines = 0) => excerpt = join(extracted, "\n")

\* extract_error_block applied to the excerpt, with the arguments of the call
Reapplied == extract_error_block(excerpt, max_lines, keywords).excerpt

\* C24 as stated: for max_lines >= 1, extract_error_block applied to its own
\* output with the same arguments returns that output, also when the call
\* had truncated the accumulated lines.
C24_IdempotentAlways ==
    (ext_pc = "done" /\ max_lines >= 1) => Reapplied = excerpt

\* C24: for max_lines >= 1, when the call accumulated at most max_lines lines
\* (nothing was truncated) and its output does not end with a line break,
\* extract_error_block applied to that output with the same arguments returns
\* it unchanged.
C24_IdempotentUntruncated ==
    (/\ ext_pc = "done"
     /\ max_lines >= 1
     /\ Len(extracted) <= max_lines
     /\ (Len(extracted) < 2 \/ extracted[Len(extracted)] # <<>>)) =>
        Reapplied = excerpt

\* a call that left lines of its log out, truncated nothing and whose output
\* comes back from a second application
C24_Witness ==
    /\ ext_pc = "done"
    /\ max_lines >= 1
    /\ Len(extracted) >= 2
    /\ Len(extracted) <= max_lines
    /\ Len(extracted) < Len(splitlines(log_text))
    /\ extracted[Len(extracted)] # <<>>
    /\ Reapplied = excerpt

\* C24 with truncation, where it happens to hold: the lines kept are still
\* inside the window of a kept line that holds a keyword
C24_WitnessTruncated ==
    /\ ext_pc = "done"
    /\ max_lines >= 1
    /\ Len(extracted) > max_lines
    /\ excerpt # <<>>
    /\ Reapplied = excerpt

----------------------------------------------------------------------------
(* Vocabulary of the client's contract *)

\* what _extract_job_path gives for the job URL of the client call
Located == extract_job_path(cli_args.job_url)

\* the positions in requests of the latest-build lookups
LookupRequests ==
    {k \in 1..Len(requests) : requests[k].sent_by = "_get_latest_build_number"}

\* the positions in requests of the consoleText requests
ConsoleRequests ==
    {k \in 1..Len(requests) : requests[k].sent_by = "get_console_log"}

\* the positions in requests of the metadata requests of get_job_info
JobInfoRequests ==
    {k \in 1..Len(requests) : requests[k].sent_by = "get_job_info"}

\* the exchange failed: no response, or a status that is not a success
FailedExchange(resp) == resp.kind = "network_error" \/ resp.status >= 400

\* a lookup response without a usable lastBuild.number
NoLastBuild(resp) ==
    /\ ~FailedExchange(resp)
    /\ resp.json # None
    /\ \/ "lastBuild" \notin DOMAIN resp.json[1]
       \/ resp.json[1].lastBuild = None

\* the exchange gave nothing the call can use
Unusable(k) ==
    \/ FailedExchange(responses[k])
    \/ /\ requests[k].sent_by # "get_console_log"
       /\ responses[k].json = None
    \/ /\ requests[k].sent_by = "_get_latest_build_number"
       /\ \/ NoLastBuild(responses[k])
          \/ "number" \notin DOMAIN responses[k].json[1].lastBuild[1]

\* the build number get_console_log has to use: the argument, else the job
\* URL's, else the one the lookup reported
ResolvedBuildNumber ==
    IF cli_args.build_number # None THEN cli_args.build_number[1]
    ELSE IF Located.build_number # None THEN Located.build_number[1]
    ELSE responses[1].json[1].lastBuild[1].number

\* the configured base URL without its trailing slashes
ConfiguredBase == rstrip(config.base_url, "/")

----------------------------------------------------------------------------
(* Claims about the client, checked under SpecClient *)

\* C14: every console-text request of get_console_log goes to exactly
\* {base}/{canonical_path}/{build_number}/consoleText: the configured base URL
\* without trailing slash, the path _extract_job_path returned, the resolved
\* build number in decimal.
C14_ConsoleUrl ==
    \A k \in ConsoleRequests :
        requests[k].url =
            ConfiguredBase \o <<"/">> \o Located.job_path \o <<"/">>
            \o str_int(ResolvedBuildNumber) \o <<"/", "c", "o", "n", "s", "o", "l", "e", "T", "e", "x", "t">>

\* with base https://h/ci/ and job URL https://h/job/a/job/b, after a lookup
\* that reported build 12, the console request went to
\* https://h/ci/job/a/job/b/12/consoleText
C14_Witness ==
    /\ config.base_url = <<"h", "t", "t", "p", "s", ":", "/", "/", "h", "/", "c", "i", "/">>
    /\ cli_args.job_url = <<"h", "t", "t", "p", "s", ":", "/", "/", "h", "/", "j", "o", "b", "/", "a", "/", "j", "o", "b", "/", "b">>
    /\ Len(requests) = 2
    /\ requests[2] = Request(<<"h", "t", "t", "p", "s", ":", "/", "/", "h", "/", "c", "i", "/", "j", "o", "b", "/", "a", "/", "j", "o", "b", "/", "b", "/", "1", "2", "/", "c", "o", "n", "s", "o", "l", "e", "T", "e", "x", "t">>, "get_console_log")

C15_WitnessLookup ==
    /\ cli_args.fn = "get_console_log"
    /\ LookupRequests = {1}
    /\ ConsoleRequests = {2}
    /\ cli_build_number = <<LastBuildNumber>>

\* C16: when the response to the latest-build lookup has no lastBuild field
\* or a null lastBuild, get_console_log fails with the no-builds-found error
\* and the console-text request is never sent.
C16_NoBuildsFound ==
    (/\ cli_args.fn = "get_console_log"
     /\ Len(responses) >= 1
     /\ requests[1].sent_by = "_get_latest_build_number"
     /\ NoLastBuild(responses[1])) =>
        /\ ConsoleRequests = {}
        /\ Len(requests) = 1
        /\ cli_pc = "done"
        /\ cli_result = Failure(FailedConsole, ErrNoBuilds)

\* the lookup was answered with "lastBuild": null and the call has failed
C16_Witness ==
    /\ cli_args.fn = "get_console_log"
    /\ Len(responses) = 1
    /\ responses[1].json # None
    /\ "lastBuild" \in DOMAIN responses[1].json[1]
    /\ responses[1].json[1].lastBuild = None
    /\ cli_result = Failure(FailedConsole, ErrNoBuilds)

\* the lookup was answered without a lastBuild field and the call has failed
C16_WitnessAbsent ==
    /\ cli_args.fn = "get_console_log"
    /\ Len(responses) = 1
    /\ responses[1].json # None
    /\ "lastBuild" \notin DOMAIN responses[1].json[1]
    /\ cli_result = Failure(FailedConsole, ErrNoBuilds)

\* C17: in one call of get_console_log or get_job_info, a failure at any step
\* (locating the job, the latest-build lookup, an HTTP exchange) ends the call
\* with a failure that carries no log text and no metadata; no request is
\* sent after the failure; no request is repeated: at most one latest-build
\* lookup and at most one console-text or metadata request.
C17_FailureEndsCall ==
    /\ Cardinality(LookupRequests) <= 1
    /\ Cardinality(ConsoleRequests \cup JobInfoRequests) <= 1
    /\ \A a, b \in 1..Len(requests) : a # b => requests[a].url # requests[b].url
    /\ (cli_pc # "call" /\ ~Located.ok) =>
          /\ requests = <<>>
          /\ cli_pc = "done"
          /\ ~cli_result.ok
    /\ \A k \in 1..Len(responses) :
          Unusable(k) =>
              /\ Len(requests) = k
              /\ cli_pc = "done"
              /\ ~cli_result.ok
    /\ (cli_pc = "done" /\ ~cli_result.ok) => cli_result.value = <<>>
    /\ cli_pc # "done" => cli_result.value = <<>>

\* the lookup succeeded, the console-text request was answered with status
\* 404 and a body, and the call has failed without returning the body
C17_Witness ==
    /\ cli_pc = "done"
    /\ Len(requests) = 2
    /\ Len(responses) = 2
    /\ responses[2].kind = "response"
    /\ responses[2].status = 404
    /\ responses[2].text # <<>>
    /\ cli_result = Failure(FailedConsole, "HTTPStatusError")

\* the job could not be located and the call has failed without a request
C17_WitnessLocate ==
    /\ cli_pc = "done"
    /\ ~Located.ok
    /\ requests = <<>>
    /\ ~cli_result.ok

\* C18: on a successful console fetch get_console_log returns the fetched
\* text itself when parse_errors is false, and extract_error_block of it with
\* max_lines 1000 and the default keywords when parse_errors is true: the
\* empty string for a log without a keyword.
C18_ParseErrorsSwitch ==
    (/\ cli_pc = "done"
     /\ ConsoleRequests # {}
     /\ ~FailedExchange(responses[Len(responses)])) =>
        \E text \in {responses[Len(responses)].text} :
            /\ cli_result.ok
            /\ ~cli_args.parse_errors => cli_result.value = <<text>>
            /\ cli_args.parse_errors =>
                  /\ cli_result.value =
                        <<extract_error_block(text, 1000, None).excerpt>>
                  /\ (\A k \in 1..Len(DefaultKeywords) :
                         \A L \in {splitlines(text)} : \A i \in 1..Len(L) :
                            ~HoldsNoCase(L[i], DefaultKeywords[k]))
                        => cli_result.value = << <<>> >>

\* a log without a keyword was fetched with parse_errors and the call has
\* returned the empty string
C18_Witness ==
    /\ cli_pc = "done"
    /\ cli_args.parse_errors
    /\ ConsoleRequests # {}
    /\ responses[Len(responses)].text = <<"o", "k", "\n", "f", "i", "n", "e">>
    /\ cli_result = Success(<<>>)

\* the same log was fetched without parse_errors and has come back whole
C18_WitnessRaw ==
    /\ cli_pc = "done"
    /\ ~cli_args.parse_errors
    /\ ConsoleRequests # {}
    /\ cli_result = Success(<<"o", "k", "\n", "f", "i", "n", "e">>)

\* C19: get_job_info requests {base}/{canonical_path}/{build_number}/api/json
\* when the job URL carries a build number and {base}/{canonical_path}/api/json
\* otherwise, once, and never looks the latest build up.
C19_JobInfoUrl ==
    cli_args.fn = "get_job_info" =>
        /\ LookupRequests = {}
        /\ ConsoleRequests = {}
        /\ \A k \in 1..Len(requests) :
              requests[k].url =
                  IF Located.build_number # None
                  THEN ConfiguredBase \o <<"/">> \o Located.job_path \o <<"/">>
                       \o str_int(Located.build_number[1]) \o <<"/", "a", "p", "i", "/", "j", "s", "o", "n">>
                  ELSE ConfiguredBase \o <<"/">> \o Located.job_path \o <<"/", "a", "p", "i", "/", "j", "s", "o", "n">>
        /\ (Located.ok /\ cli_pc \notin {"call", "info"}) => Len(requests) = 1

\* get_job_info of https://h/ci/job/a/7 with base https://h has requested
\* https://h/ci/job/a/7/api/json
C19_Witness ==
    /\ cli_args.fn = "get_job_info"
    /\ config.base_url = <<"h", "t", "t", "p", "s", ":", "/", "/", "h">>
    /\ cli_args.job_url = <<"h", "t", "t", "p", "s", ":", "/", "/", "h", "/", "c", "i", "/", "j", "o", "b", "/", "a", "/", "7">>
    /\ requests = <<Request(<<"h", "t", "t", "p", "s", ":", "/", "/", "h", "/", "c", "i", "/", "j", "o", "b", "/", "a", "/", "7", "/", "a", "p", "i", "/", "j", "s", "o", "n">>, "get_job_info")>>

\* get_job_info of https://h/job/a/job/b has requested the job's metadata
C19_WitnessJob ==
    /\ cli_args.fn = "get_job_info"
    /\ config.base_url = <<"h", "t", "t", "p", "s", ":", "/", "/", "h">>
    /\ cli_args.job_url = <<"h", "t", "t", "p", "s", ":", "/", "/", "h", "/", "j", "o", "b", "/", "a", "/", "j", "o", "b", "/", "b">>
    /\ requests = <<Request(<<"h", "t", "t", "p", "s", ":", "/", "/", "h", "/", "j", "o", "b", "/", "a", "/", "j", "o", "b", "/", "b", "/", "a", "p", "i", "/", "j", "s", "o", "n">>, "get_job_info")>>

\* u is a build URL under base b: b, then /job/<name> once or more, then a
\* numeric segment, with or without a trailing slash
IsBuildUrlUnder(b, u) ==
    /\ startswith(u, b \o <<"/">>)
    /\ \E segs \in {Tail(split(rstrip(From(u, Len(b) + 1), "/"), "/"))} :
          /\ Len(segs) >= 3
          /\ IsJobPairs(SubSeq(segs, 1, Len(segs) - 1))
          /\ IsNumber(segs[Len(segs)])

\* C22: when get_console_log is given, without a build_number argument, a
\* build URL that begins with the configured base URL, its console-text
\* request goes to that build URL followed by consoleText, whether the base
\* URL has a path component or not.
\* The code puts the path of the job URL, which holds the base URL's path
\* component again, behind the base URL.
C22_ConsoleAtBuildUrl ==
    (/\ cli_args.fn = "get_console_log"
     /\ cli_args.build_number = None
     /\ IsBuildUrlUnder(ConfiguredBase, cli_args.job_url)) =>
        \A k \in ConsoleRequests :
            requests[k].url = rstrip(cli_args.job_url, "/") \o <<"/", "c", "o", "n", "s", "o", "l", "e", "T", "e", "x", "t">>

\* C22 for base URLs without a path component
C22_RootBase ==
    (/\ cli_args.fn = "get_console_log"
     /\ cli_args.build_number = None
     /\ urlparse(ConfiguredBase).path = <<>>
     /\ IsBuildUrlUnder(ConfiguredBase, cli_args.job_url)) =>
        \A k \in ConsoleRequests :
            requests[k].url = rstrip(cli_args.job_url, "/") \o <<"/", "c", "o", "n", "s", "o", "l", "e", "T", "e", "x", "t">>

\* C26: every request of get_console_log, _get_latest_build_number and
\* get_job_info is sent with the client's headers, which hold the Basic
\* credentials, to a URL that begins with the configured base URL (its
\* trailing slashes stripped) and "/", and whose scheme and host with port
\* are the base URL's: whatever the job URL names, none of it is the target.
C26_RequestsAtConfiguredBase ==
    \A k \in 1..Len(requests) :
        /\ requests[k].sent_by \in
              {"get_console_log", "_get_latest_build_number", "get_job_info"}
        /\ requests[k].headers = "self.headers"
        /\ startswith(requests[k].url, ConfiguredBase \o <<"/">>)
        /\ urlparse(requests[k].url).scheme = urlparse(ConfiguredBase).scheme
        /\ urlparse(requests[k].url).netloc = urlparse(ConfiguredBase).netloc

\* a job URL that names another scheme, host and port than the base URL was
\* located, and the lookup and the consoleText request were both sent
C26_Witness ==
    /\ Len(requests) = 2
    /\ UrlShaped(cli_args.job_url)
    /\ urlparse(cli_args.job_url).netloc # urlparse(ConfiguredBase).netloc
    /\ urlparse(cli_args.job_url).scheme # urlparse(ConfiguredBase).scheme
    /\ \A k \in 1..2 : startswith(requests[k].url, ConfiguredBase \o <<"/">>)

\* the same for the request of get_job_info
C26_WitnessJobInfo ==
    /\ Len(requests) = 1
    /\ requests[1].sent_by = "get_job_info"
    /\ UrlShaped(cli_args.job_url)
    /\ urlparse(cli_args.job_url).netloc # urlparse(ConfiguredBase).netloc

----------------------------------------------------------------------------
(* Claims about the tool functions, checked under SpecTools *)

\* the tool function has ended and the client call it made had failed
ToolCallFailed == tool_pc = "done" /\ ~cli_result.ok

\* the tool function has ended and the client call it made had returned
ToolCallSucceeded == tool_pc = "done" /\ cli_result.ok

\* C25: fetch_console_log and get_job_info raise nothing to their caller.
\* When the client call failed, whatever made it fail, they return a text
\* that begins with "Error fetching console log: " or "Error fetching job
\* info: "; when it returned, a text that holds the log the client call
\* returned (the text of the response when parse_errors is off), or the
\* metadata of the response formatted as JSON.
C25_ToolsReturnText ==
    tool_pc = "done" =>
        /\ ~tool_result.raised
        /\ ToolCallFailed =>
              startswith(tool_result.text,
                         IF tool_call.fn = "fetch_console_log"
                         THEN ErrorFetchingConsoleLog
                         ELSE ErrorFetchingJobInfo)
        /\ (ToolCallSucceeded /\ tool_call.fn = "fetch_console_log") =>
              /\ contains(tool_result.text, cli_result.value[1])
              /\ ~tool_call.parse_errors =>
                    contains(tool_result.text,
                             <<"\n", "\n">> \o responses[Len(responses)].text)
        /\ (ToolCallSucceeded /\ tool_call.fn = "get_job_info") =>
              \A meta \in {responses[Len(responses)].json[1]} :
                  /\ contains(tool_result.text, json_dumps(meta))
                  /\ \A k \in DOMAIN meta :
                        contains(tool_result.text, <<"\"", k, "\"", ":", " ">>)

\* fetch_console_log has returned its text after the server answered the
\* client's request with an error status
C25_Witness ==
    /\ ToolCallFailed
    /\ tool_call.fn = "fetch_console_log"
    /\ cli_result.cause = "HTTPStatusError"
    /\ ~tool_result.raised
    /\ startswith(tool_result.text, ErrorFetchingConsoleLog)

\* get_job_info has returned its text after the job URL could not be located
C25_WitnessJobInfo ==
    /\ ToolCallFailed
    /\ tool_call.fn = "get_job_info"
    /\ requests = <<>>
    /\ startswith(tool_result.text, ErrorFetchingJobInfo)

\* a tool function has returned the text that holds a log that is not empty,
\* and one that holds metadata with an object inside
C25_WitnessLog ==
    /\ ToolCallSucceeded
    /\ tool_call.fn = "fetch_console_log"
    /\ cli_result.value[1] # <<>>

C25_WitnessMetadata ==
    /\ ToolCallSucceeded
    /\ tool_call.fn = "get_job_info"
    /\ "lastBuild" \in DOMAIN responses[Len(responses)].json[1]
    /\ responses[Len(responses)].json[1].lastBuild # None

----------------------------------------------------------------------------
(* Claims about interleaved calls, checked under SpecCalls *)

\* what call c returns when it runs alone on its arguments
Alone(c) ==
    IF frames[c].fn = "_extract_job_path"
    THEN [result  |-> extract_job_path(frames[c].args.job_url),
          excerpt |-> <<>>]
    ELSE [result  |-> NoResult,
          excerpt |-> extract_error_block(frames[c].args.log_text,
                                          frames[c].args.max_lines,
                                          frames[c].args.keywords).excerpt]

\* C13: however the statements of any number of calls of _extract_job_path
\* and extract_error_block are interleaved, every call that has returned has
\* returned what it returns when run alone on the same arguments.
C13_InterleavedAsAlone ==
    \A c \in DOMAIN frames :
        frames[c].pc = "done" =>
            /\ frames[c].result = Alone(c).result
            /\ frames[c].excerpt = Alone(c).excerpt

\* two calls of extract_error_block have returned, each having run statements
\* while the other was between its first and its last statement
C13_Witness ==
    /\ Len(frames) >= 2
    /\ \A c \in {1, 2} :
          /\ frames[c].fn = "extract_error_block"
          /\ frames[c].pc = "done"
          /\ frames[c].overlapped
          /\ frames[c].excerpt # <<>>

\* a call of _extract_job_path and a call of extract_error_block have
\* returned, each having run statements while the other was under way
C13_WitnessMixed ==
    /\ Len(frames) >= 2
    /\ frames[1].fn = "_extract_job_path"
    /\ frames[2].fn = "extract_error_block"
    /\ \A c \in {1, 2} : frames[c].pc = "done" /\ frames[c].overlapped
    /\ frames[1].result.ok

============================================================================
